---- MODULE Spec2Model ----
(***************************************************************************)
(* State-machine model of the Streamlit admin / user dashboard             *)
(* (app.py, enhanced_app.py, userflow_pro.py, utils/auth.py,               *)
(* utils/user_auth.py, utils/supabase_client.py, components/user_forms.py).*)
(*                                                                         *)
(* One step of the model is one script run of the Streamlit page: the gate *)
(* at the top of main(), the handler of the widget that was clicked, and   *)
(* the rerun that st.rerun() forces.  Absent session_state keys are the    *)
(* empty sequence <<>> (or FALSE for the keys that only ever hold True).   *)
(*                                                                         *)
(* Strings that the code inspects character by character (emails,          *)
(* passwords, search queries) are sequences of one-character strings.      *)
(***************************************************************************)
EXTENDS Integers, Sequences, FiniteSets, TLC

VARIABLES
    entry,          \* which script runs: "app", "enhanced_app", "userflow_pro"
    config,         \* st.secrets: "none", "anon" (url+key), "full" (+ service_role_key)
    now,            \* datetime.now(), in hours
    session_state,  \* st.session_state
    backend,        \* the hosted backend: auth.users and the profiles table
    lastAuth,       \* history: time of each principal's last successful authentication
    view,           \* what the last script run rendered
    renderedAt,     \* the time of the last script run
    lastOp,         \* the last Remote Account Client call and its outcome
    shown,          \* the rows the user-management view rendered last
    bulk,           \* the outcome of the last bulk_operations_form execution
    opCount,        \* number of mutating requests issued so far
    ended           \* history: the sessions the last script run ended

vars == <<entry, config, now, session_state, backend, lastAuth, view,
          renderedAt, lastOp, shown, bulk, opCount, ended>>

----------------------------------------------------------------------------
(* Bounds *)

MaxNow == 26
MaxAccounts == 3
MaxOps == 1
MaxQueryLen == 2
MaxPending == 1
MaxRow == 1
MaxSubmits == 1
MaxLog == 2

(* Program constants *)

SessionHours == 24
demo_admin_id == 0
MinSignupPassword == 8
MinPasswordLength == 8

Ticks == {12, 13}

----------------------------------------------------------------------------
(* Strings *)

default_email == <<"e", "n", "t", "r", "e", "m", "o", "t", "i", "v", "a", "t", "o", "r", "@", "g", "m", "a", "i", "l", ".", "c", "o", "m">>
default_password == <<"a", "d", "m", "i", "n", "1", "2", "3">>

EmailA == <<"a", "n", "n", "@", "a", "b", ".", "c", "o">>
EmailB == <<"B", "o", "@", "a", "b", ".", "c", "o">>
EmailC == <<"c", "y", "@", "a", "b", ".", "c", "o">>
PwA == <<"p", "a", "s", "s", "w", "o", "r", "d", "1">>
PwB == <<"s", "e", "c", "r", "e", "t", "4", "2">>
NameA == <<"A", "n", "n">>
NameB == <<"B", "o", " ", "B">>

Absent == <<>>
Present(v) == v # <<>>
Val(v) == v[1]

SeqRange(seq) == {seq[k] : k \in 1..Len(seq)}

----------------------------------------------------------------------------
(* utils/auth.py : AuthManager *)

is_admin_authenticated(s) == s.admin_authenticated

get_current_admin(s) == s.admin_user

\* Variant: logout also empties the audit store.
logout_clearing_audit_logs(s) ==
    [s EXCEPT !.admin_authenticated = FALSE,
              !.admin_user = Absent,
              !.session_token = FALSE,
              !.audit_logs = <<>>]

\* logout deletes three keys (session_created is not among them); the
\* st.rerun() that follows is applied by the callers below.
logout(s) ==
    [s EXCEPT !.admin_authenticated = FALSE,
              !.admin_user = Absent,
              !.session_token = FALSE]

create_session(s, user_data, t) ==
    [s EXCEPT !.session_token = TRUE,
              !.admin_user = <<user_data>>,
              !.admin_authenticated = TRUE,
              !.session_created = <<t>>]

\* result "rerun": logout() ended the script run with st.rerun() before
\* the return statement that follows it.
validate_session(s, t) ==
    IF ~s.session_token
    THEN [result |-> "False", state |-> s]
    ELSE IF ~Present(s.session_created)
    THEN [result |-> "False", state |-> s]
    ELSE IF t - Val(s.session_created) > SessionHours
    THEN [result |-> "rerun", state |-> logout(s)]
    ELSE [result |-> "True", state |-> s]

\* Variant: the session is not validated once the admin is authenticated.
require_auth_unvalidated(s, t) ==
    IF ~is_admin_authenticated(s)
    THEN [outcome |-> "login", state |-> s]
    ELSE [outcome |-> "admit", state |-> s]

\* require_auth without a login submission.  outcome: "admit" (the caller
\* goes on to render the protected view), "login" (login form, st.stop),
\* "expired" ("Session expired" error, st.stop), "rerun".
require_auth(s, t) ==
    IF ~is_admin_authenticated(s)
    THEN [outcome |-> "login", state |-> s]
    ELSE LET v == validate_session(s, t)
         IN  CASE v.result = "True" -> [outcome |-> "admit", state |-> v.state]
               [] v.result = "False" -> [outcome |-> "expired", state |-> v.state]
               [] OTHER -> [outcome |-> "rerun", state |-> v.state]

\* A script run of the admin page with no widget clicked, reruns included.
AdminRun(s, t) ==
    LET r == require_auth(s, t)
    IN  IF r.outcome = "rerun" THEN require_auth(r.state, t) ELSE r

AdminView(outcome) ==
    CASE outcome = "admit" -> "protected"
      [] outcome = "login" -> "login"
      [] OTHER -> "expired"

----------------------------------------------------------------------------
(* The hosted backend (external): auth.users and the profiles table of     *)
(* utils/database_setup.py.  Every call returns [ok, b]: ok = FALSE is an  *)
(* exception raised by the SDK because a constraint of the schema is       *)
(* violated.  Transport failures are the fail arguments of the client.     *)

ProfileFields == {"email", "full_name", "role", "status"}

EmailTaken(table, email, except) ==
    \E i \in DOMAIN table : i # except /\ table[i].email = email

\* Drop key i from a table.
Without(table, i) == [j \in DOMAIN table \ {i} |-> table[j]]

\* Add or replace key i.
With(table, i, row) ==
    [j \in DOMAIN table \cup {i} |-> IF j = i THEN row ELSE table[j]]

\* handle_new_user(): the on_auth_user_created trigger, when installed.
handle_new_user(b, id, email) ==
    [email |-> email, full_name |-> <<>>, role |-> "user", status |-> "active"]

\* client.auth.admin.create_user
auth_admin_create_user(b, email, password) ==
    LET id == b.next_id
        ok == /\ ~EmailTaken(b.auth_users, email, 0)
              /\ b.trigger => ~EmailTaken(b.profiles, email, 0)
    IN  IF ~ok THEN [ok |-> FALSE, b |-> b, id |-> 0]
        ELSE [ok |-> TRUE, id |-> id,
              b |-> [b EXCEPT
                 !.next_id = id + 1,
                 !.auth_users = With(@, id, [email |-> email, password |-> password,
                                            email_confirmed |-> TRUE]),
                 !.profiles = IF b.trigger
                              THEN With(@, id, handle_new_user(b, id, email))
                              ELSE @]]

\* client.table('profiles').insert(row): primary key, unique email, and the
\* foreign key to auth.users.
profiles_insert(b, id, row) ==
    LET ok == /\ id \notin DOMAIN b.profiles
              /\ id \in DOMAIN b.auth_users
              /\ ~EmailTaken(b.profiles, row.email, 0)
    IN  IF ~ok THEN [ok |-> FALSE, b |-> b]
        ELSE [ok |-> TRUE, b |-> [b EXCEPT !.profiles = With(@, id, row)]]

\* Apply a dict of updates to a row, keeping the row's columns.
ApplyUpdates(row, updates) ==
    [f \in DOMAIN row |-> IF f \in DOMAIN updates THEN updates[f] ELSE row[f]]

\* client.auth.admin.update_user_by_id
auth_admin_update_user_by_id(b, id, updates) ==
    LET ok == /\ id \in DOMAIN b.auth_users
              /\ "email" \in DOMAIN updates
                    => ~EmailTaken(b.auth_users, updates["email"], id)
    IN  IF ~ok THEN [ok |-> FALSE, b |-> b]
        ELSE [ok |-> TRUE,
              b |-> [b EXCEPT !.auth_users[id] = ApplyUpdates(@, updates)]]

\* client.table('profiles').update(updates).eq('id', id): no matching row
\* is not an error.
profiles_update(b, id, updates) ==
    IF id \notin DOMAIN b.profiles THEN [ok |-> TRUE, b |-> b]
    ELSE IF "email" \in DOMAIN updates
            /\ EmailTaken(b.profiles, updates["email"], id)
    THEN [ok |-> FALSE, b |-> b]
    ELSE [ok |-> TRUE, b |-> [b EXCEPT !.profiles[id] = ApplyUpdates(@, updates)]]

\* client.table('profiles').delete().eq('id', id)
profiles_delete(b, id) ==
    [ok |-> TRUE, b |-> [b EXCEPT !.profiles = Without(@, id)]]

\* client.auth.admin.delete_user: the profile row goes with it
\* (ON DELETE CASCADE).
auth_admin_delete_user(b, id) ==
    IF id \notin DOMAIN b.auth_users THEN [ok |-> FALSE, b |-> b]
    ELSE [ok |-> TRUE, b |-> [b EXCEPT !.auth_users = Without(@, id),
                                       !.profiles = Without(@, id)]]

\* auth.sign_in_with_password: the matching account, or 0.
sign_in_with_password(b, email, password) ==
    LET m == {i \in DOMAIN b.auth_users :
                 /\ b.auth_users[i].email = email
                 /\ b.auth_users[i].password = password}
    IN  IF m = {} THEN 0 ELSE CHOOSE i \in m : TRUE

\* auth.sign_up: as create_user, the email not yet confirmed.
auth_sign_up(b, email, password) ==
    LET c == auth_admin_create_user(b, email, password)
    IN  IF ~c.ok THEN c
        ELSE [c EXCEPT !.b.auth_users[c.id].email_confirmed = FALSE]

\* The account state a claim about "backend state" compares.
AccountState(b) == [auth_users |-> b.auth_users, profiles |-> b.profiles]

----------------------------------------------------------------------------
(* utils/supabase_client.py : SupabaseAdmin                                *)
(* Every operation yields [ret, raised, b, calls]: the value returned, or  *)
(* raised = TRUE when an exception leaves the operation; the backend       *)
(* afterwards; the backend calls issued, in order.  fail is the position   *)
(* of the backend call that raises for a reason outside the model (the     *)
(* network, the service); 0 is none.                                       *)

Call(api, id) == [api |-> api, id |-> id]

\* Variant: no except clause, the exception leaves the operation.
TryExcept_propagates(r, failValue) == r

\* try: ... except Exception: return failValue
TryExcept(r, failValue) ==
    IF r.raised THEN [r EXCEPT !.raised = FALSE, !.ret = failValue] ELSE r

Raised(b, calls) == [ret |-> FALSE, raised |-> TRUE, b |-> b, calls |-> calls]
Returned(v, b, calls) == [ret |-> v, raised |-> FALSE, b |-> b, calls |-> calls]

\* get_user_profile: <<row>>, or <<>> for None.
get_user_profile(b, user_id, fail) ==
    LET calls == <<Call("profiles.select", user_id)>>
    IN  TryExcept(
          IF fail = 1 THEN Raised(b, calls)
          ELSE IF user_id \in DOMAIN b.profiles
               THEN Returned(<<b.profiles[user_id]>>, b, calls)
               ELSE Returned(<<>>, b, calls),
          <<>>)

\* Variant: the role of the resolved profile is not looked at.
authenticate_admin_any_role(b, s, email, password, fail) ==
    LET uid == sign_in_with_password(b, email, password)
        c1 == <<Call("auth.sign_in_with_password", uid)>>
        body ==
          IF fail = 1 \/ uid = 0
          THEN Raised(b, c1) @@ [state |-> s]
          ELSE Returned(TRUE, b, c1) @@
               [state |-> [s EXCEPT
                   !.admin_user = <<[id |-> uid, email |-> email]>>,
                   !.admin_authenticated = TRUE]]
    IN  TryExcept(body, FALSE)

\* authenticate_admin also writes the session: the result carries it.
authenticate_admin(b, s, email, password, fail) ==
    LET uid == sign_in_with_password(b, email, password)
        c1 == <<Call("auth.sign_in_with_password", uid)>>
        p == get_user_profile(b, uid, IF fail = 2 THEN 1 ELSE 0)
        body ==
          IF fail = 1 \/ uid = 0
          THEN Raised(b, c1) @@ [state |-> s]
          ELSE IF Present(p.ret) /\ Val(p.ret).role = "admin"
          THEN Returned(TRUE, b, c1 \o p.calls) @@
               [state |-> [s EXCEPT
                   !.admin_user = <<[id |-> uid, email |-> email]>>,
                   !.admin_authenticated = TRUE]]
          ELSE Returned(FALSE, b, c1 \o p.calls) @@ [state |-> s]
    IN  TryExcept(body, FALSE)

\* get_all_users: the credential records, in id order.
RECURSIVE ListUsers(_, _)
ListUsers(b, i) ==
    IF i >= b.next_id THEN <<>>
    ELSE (IF i \in DOMAIN b.auth_users
          THEN <<[id |-> i, email |-> b.auth_users[i].email,
                  email_confirmed_at |-> b.auth_users[i].email_confirmed]>>
          ELSE <<>>) \o ListUsers(b, i + 1)

get_all_users(b, fail) ==
    LET calls == <<Call("auth.admin.list_users", 0)>>
    IN  TryExcept(
          IF fail = 1 THEN Raised(b, calls)
          ELSE Returned(ListUsers(b, 1), b, calls),
          <<>>)

\* Variant: the profile row is inserted with the defaults, whatever
\* user_data holds.
create_user_with_defaults(b, email, password, user_data, fail) ==
    LET c1 == auth_admin_create_user(b, email, password)
        k1 == <<Call("auth.admin.create_user", c1.id)>>
        profile_data == [email |-> email, full_name |-> <<>>,
                         role |-> "user", status |-> "active"]
        c2 == profiles_insert(c1.b, c1.id, profile_data)
        k2 == k1 \o <<Call("profiles.insert", c1.id)>>
    IN  TryExcept(
          IF fail = 1 \/ ~c1.ok THEN Raised(b, k1)
          ELSE IF fail = 2 \/ ~c2.ok THEN Raised(c1.b, k2)
          ELSE Returned(TRUE, c2.b, k2),
          FALSE)

create_user(b, email, password, user_data, fail) ==
    LET c1 == auth_admin_create_user(b, email, password)
        k1 == <<Call("auth.admin.create_user", c1.id)>>
        profile_data ==
            [email |-> email,
             full_name |-> IF "full_name" \in DOMAIN user_data
                           THEN user_data["full_name"] ELSE <<>>,
             role |-> IF "role" \in DOMAIN user_data
                      THEN user_data["role"] ELSE "user",
             status |-> IF "status" \in DOMAIN user_data
                        THEN user_data["status"] ELSE "active"]
        c2 == profiles_insert(c1.b, c1.id, profile_data)
        k2 == k1 \o <<Call("profiles.insert", c1.id)>>
    IN  TryExcept(
          IF fail = 1 \/ ~c1.ok THEN Raised(b, k1)
          ELSE IF fail = 2 \/ ~c2.ok THEN Raised(c1.b, k2)
          ELSE Returned(TRUE, c2.b, k2),
          FALSE)

Restrict(f, S) == [x \in DOMAIN f \cap S |-> f[x]]

\* update_user: auth_updates, the fields sent to the credential call.
auth_updates(user_data) ==
    Restrict(user_data,
       {"email"} \cup
       (IF "password" \in DOMAIN user_data /\ user_data["password"] # <<>>
        THEN {"password"} ELSE {}))

\* Variant: the password is not filtered out of the profile update.
profile_updates_with_password(user_data) == user_data

\* update_user: profile_updates, the fields sent to the profile call.
profile_updates(user_data) ==
    Restrict(user_data, DOMAIN user_data \ {"password"})

\* A call that carries a field set.
CallWith(api, id, updates) == Call(api, id) @@ [fields |-> DOMAIN updates]

update_user(b, user_id, user_data, fail) ==
    LET au == auth_updates(user_data)
        pu == profile_updates(user_data)
        doAuth == DOMAIN au # {}
        doProfile == DOMAIN pu # {}
        c1 == IF doAuth THEN auth_admin_update_user_by_id(b, user_id, au)
              ELSE [ok |-> TRUE, b |-> b]
        k1 == IF doAuth
              THEN <<CallWith("auth.admin.update_user_by_id", user_id, au)>>
              ELSE <<>>
        c2 == IF doProfile THEN profiles_update(c1.b, user_id, pu)
              ELSE [ok |-> TRUE, b |-> c1.b]
        k2 == k1 \o (IF doProfile
                     THEN <<CallWith("profiles.update", user_id, pu)>>
                     ELSE <<>>)
    IN  TryExcept(
          IF doAuth /\ (fail = 1 \/ ~c1.ok) THEN Raised(b, k1)
          ELSE IF doProfile /\ (fail = 2 \/ ~c2.ok) THEN Raised(c1.b, k2)
          ELSE Returned(TRUE, c2.b, k2),
          FALSE)

\* Variant: the credential record is deleted first, the profile row second.
delete_user_credential_first(b, user_id, fail) ==
    LET c1 == auth_admin_delete_user(b, user_id)
        k1 == <<Call("auth.admin.delete_user", user_id)>>
        c2 == profiles_delete(c1.b, user_id)
        k2 == k1 \o <<Call("profiles.delete", user_id)>>
    IN  TryExcept(
          IF fail = 1 \/ ~c1.ok THEN Raised(b, k1)
          ELSE IF fail = 2 THEN Raised(c1.b, k2)
          ELSE Returned(TRUE, c2.b, k2),
          FALSE)

delete_user(b, user_id, fail) ==
    LET c1 == profiles_delete(b, user_id)
        k1 == <<Call("profiles.delete", user_id)>>
        c2 == auth_admin_delete_user(c1.b, user_id)
        k2 == k1 \o <<Call("auth.admin.delete_user", user_id)>>
    IN  TryExcept(
          IF fail = 1 THEN Raised(b, k1)
          ELSE IF fail = 2 \/ ~c2.ok THEN Raised(c1.b, k2)
          ELSE Returned(TRUE, c2.b, k2),
          FALSE)

reset_user_password(b, email, fail) ==
    LET calls == <<Call("auth.reset_password_email", 0)>>
    IN  TryExcept(
          IF fail = 1 THEN Raised(b, calls) ELSE Returned(TRUE, b, calls),
          FALSE)

CountWhere(table, field, value) ==
    Cardinality({i \in DOMAIN table : table[i][field] = value})

ZeroStats ==
    [total_users |-> 0, active_users |-> 0, inactive_users |-> 0,
     admin_users |-> 0, regular_users |-> 0]

get_user_stats(b, fail) ==
    LET users == get_all_users(b, fail)
        calls == users.calls \o <<Call("profiles.select", 0)>>
    IN  TryExcept(
          IF fail = 2 THEN Raised(b, calls)
          ELSE Returned(
                 [total_users |-> Len(users.ret),
                  active_users |-> CountWhere(b.profiles, "status", "active"),
                  inactive_users |-> CountWhere(b.profiles, "status", "inactive"),
                  admin_users |-> CountWhere(b.profiles, "role", "admin"),
                  regular_users |-> CountWhere(b.profiles, "role", "user")],
                 b, calls),
          ZeroStats)

\* str.lower() / re.IGNORECASE on one character.
UpperCase == <<"A", "B", "C", "D", "E", "F", "G", "H", "I", "J", "K", "L", "M", "N", "O", "P", "Q", "R", "S", "T", "U", "V", "W", "X", "Y", "Z">>
LowerCase == <<"a", "b", "c", "d", "e", "f", "g", "h", "i", "j", "k", "l", "m", "n", "o", "p", "q", "r", "s", "t", "u", "v", "w", "x", "y", "z">>

LowerOf == [k \in 1..Len(UpperCase) |-> LowerCase[k]]
UpperIndex == [c \in {UpperCase[k] : k \in 1..Len(UpperCase)} |->
                 CHOOSE k \in 1..Len(UpperCase) : UpperCase[k] = c]

LowerChar(c) == IF c \in DOMAIN UpperIndex THEN LowerOf[UpperIndex[c]] ELSE c

\* SQL ilike '%q%': q occurs in str, ignoring case.
ILike(str, q) ==
    \E i \in 0..(Len(str) - Len(q)) :
        \A k \in 1..Len(q) : LowerChar(str[i + k]) = LowerChar(q[k])

\* Series.str.contains(pat, case=False): re.search with IGNORECASE.  The
\* patterns of the model are made of literal characters and ".", which
\* matches any character.
str_contains(str, pat) ==
    \E i \in 0..(Len(str) - Len(pat)) :
        \A k \in 1..Len(pat) :
            pat[k] = "." \/ LowerChar(str[i + k]) = LowerChar(pat[k])

\* search_users: the matching profile rows (as a set of ids).
search_users(b, query, fail) ==
    LET calls == <<Call("profiles.select", 0)>>
    IN  TryExcept(
          IF fail = 1 THEN Raised(b, calls)
          ELSE Returned({i \in DOMAIN b.profiles :
                            \/ ILike(b.profiles[i].email, query)
                            \/ ILike(b.profiles[i].full_name, query)},
                        b, calls),
          {})

\* bulk_update_users: update_user per id, its result ignored.  failAt is
\* the id whose update is hit by the failure position fail (0: none).
RECURSIVE BulkUpdateLoop(_, _, _, _, _, _)
BulkUpdateLoop(b, user_ids, k, updates, failAt, fail) ==
    IF k > Len(user_ids) THEN Returned(TRUE, b, <<>>)
    ELSE LET u == update_user(b, user_ids[k], updates,
                              IF user_ids[k] = failAt THEN fail ELSE 0)
             rest == BulkUpdateLoop(u.b, user_ids, k + 1, updates, failAt, fail)
         IN  IF u.raised THEN [u EXCEPT !.ret = FALSE]
             ELSE [rest EXCEPT !.calls = u.calls \o @]

bulk_update_users(b, user_ids, updates, failAt, fail) ==
    TryExcept(BulkUpdateLoop(b, user_ids, 1, updates, failAt, fail), FALSE)

\* export_users_data: every profile row (as a set of ids).
export_users_data(b, fail) ==
    LET calls == <<Call("profiles.select", 0)>>
    IN  TryExcept(
          IF fail = 1 THEN Raised(b, calls)
          ELSE Returned(DOMAIN b.profiles, b, calls),
          {})

----------------------------------------------------------------------------
(* utils/user_auth.py : UserAuth                                           *)
(* Results are [ret, state, b]; fail is as for the admin client.           *)

user_get_user_profile(b, user_id, fail) ==
    IF fail = 1 THEN <<>>
    ELSE IF user_id \in DOMAIN b.profiles THEN <<b.profiles[user_id]>>
    ELSE <<>>

sign_up(b, s, email, password, t, fail) ==
    LET c == auth_sign_up(b, email, password)
    IN  IF fail = 1 \/ ~c.ok
        THEN [ret |-> FALSE, state |-> s, b |-> b]
        ELSE [ret |-> TRUE, b |-> c.b,
              state |-> [s EXCEPT !.user = <<c.id>>,
                                  !.user_authenticated = TRUE,
                                  !.session_created = <<t>>]]

\* user_profile holds the profile row, or "None" when none was found.
sign_in(b, s, email, password, t, fail) ==
    LET uid == sign_in_with_password(b, email, password)
        profile == user_get_user_profile(b, uid, IF fail = 2 THEN 1 ELSE 0)
    IN  IF fail = 1 \/ uid = 0
        THEN [ret |-> FALSE, state |-> s, b |-> b]
        ELSE [ret |-> TRUE, b |-> b,
              state |-> [s EXCEPT
                  !.user = <<uid>>,
                  !.user_profile = IF Present(profile) THEN profile
                                   ELSE <<"None">>,
                  !.user_authenticated = TRUE,
                  !.session_created = <<t>>]]

\* The keys are deleted after auth.sign_out(), inside the same try block.
sign_out(s, fail) ==
    IF fail = 1
    THEN [ret |-> FALSE, state |-> s]
    ELSE [ret |-> TRUE,
          state |-> [s EXCEPT !.user = Absent,
                              !.user_profile = Absent,
                              !.user_authenticated = FALSE,
                              !.session_created = Absent]]

is_authenticated(s) == s.user_authenticated

user_validate_session(s, t, fail) ==
    IF ~is_authenticated(s)
    THEN [ret |-> FALSE, state |-> s]
    ELSE IF ~Present(s.session_created)
    THEN [ret |-> FALSE, state |-> s]
    ELSE IF t - Val(s.session_created) > SessionHours
    THEN [ret |-> FALSE, state |-> sign_out(s, fail).state]
    ELSE [ret |-> TRUE, state |-> s]

----------------------------------------------------------------------------
(* Script runs.  A run yields [state, view, ended].                        *)

\* SupabaseAdmin() needs url, key and service_role_key; UserAuth() needs
\* url and key.  Each raises when its secrets are missing.
SupabaseAdminConstructs(cfg) == cfg = "full"
UserAuthConstructs(cfg) == cfg \in {"anon", "full"}

\* DatabaseSetup() needs url and service_role_key, and raises without them.
DatabaseSetupConstructs(cfg) == cfg = "full"

\* main() of userflow_pro.py dispatches on app_mode; app.py and
\* enhanced_app.py are the admin dashboard.
Mode(e, s) == IF e = "userflow_pro" THEN s.app_mode ELSE "admin"

\* The admin page with no widget clicked: require_auth, reruns included.
AdminPage(s, t) ==
    LET r1 == require_auth(s, t)
        r == AdminRun(s, t)
    IN  [state |-> r.state, view |-> AdminView(r.outcome),
         ended |-> IF r1.outcome \in {"rerun", "expired"} THEN {"admin"} ELSE {}]

\* render_user_portal up to the point where the portal is shown.
UserPage(s, t, cfg, fail) ==
    IF ~UserAuthConstructs(cfg)
    THEN [state |-> s, view |-> "error", ended |-> {}]
    ELSE IF ~is_authenticated(s)
    THEN [state |-> s, view |-> "user_auth", ended |-> {}]
    ELSE LET v == user_validate_session(s, t, fail)
         IN  IF v.ret
             THEN [state |-> v.state, view |-> "user_portal", ended |-> {}]
             ELSE [state |-> v.state, view |-> "user_auth", ended |-> {"user"}]

\* show_app_selector: the two launch buttons, then the database setup
\* section, whose DatabaseSetup() is constructed outside any try block
\* ("selector_error": the run ends in that exception, the buttons above it
\* already rendered).
SelectorPage(s, cfg) ==
    [state |-> s,
     view |-> IF DatabaseSetupConstructs(cfg) THEN "selector"
              ELSE "selector_error",
     ended |-> {}]

\* A script run with no widget clicked.
Page(e, s, t, cfg, fail) ==
    CASE Mode(e, s) = "admin" -> AdminPage(s, t)
      [] Mode(e, s) = "user" -> UserPage(s, t, cfg, fail)
      [] OTHER -> SelectorPage(s, cfg)

----------------------------------------------------------------------------
(* State *)

NoOp == [op |-> "none", ret |-> FALSE, raised |-> FALSE, calls |-> <<>>,
         arg |-> <<>>]

NoShown == [source |-> "none", search_query |-> <<>>, role_filter |-> "All",
            status_filter |-> "All", ids |-> <<>>]

NoBulk == [operation |-> "none", selected |-> <<>>, failed |-> {},
           success_count |-> 0, reported |-> "none", calls |-> <<>>]

InitSession ==
    [admin_authenticated |-> FALSE, admin_user |-> Absent,
     session_token |-> FALSE, session_created |-> Absent,
     user |-> Absent, user_profile |-> Absent, user_authenticated |-> FALSE,
     audit_logs |-> <<>>, app_mode |-> "none",
     show_add_user |-> FALSE,
     show_edit_user |-> FALSE, edit_user_id |-> Absent,
     show_delete_user |-> FALSE, delete_user_id |-> Absent,
     delete_user_email |-> Absent,
     show_reset_password |-> FALSE, reset_user_id |-> Absent,
     reset_user_email |-> Absent]

\* A deployed backend: an administrator and a regular user, each with a
\* profile row; the bootstrap trigger installed or not.
InitBackend(trigger) ==
    [auth_users |-> (1 :> [email |-> EmailA, password |-> PwA,
                           email_confirmed |-> TRUE]) @@
                    (2 :> [email |-> EmailB, password |-> PwA,
                           email_confirmed |-> TRUE]),
     profiles |-> (1 :> [email |-> EmailA, full_name |-> NameA,
                         role |-> "admin", status |-> "active"]) @@
                  (2 :> [email |-> EmailB, full_name |-> NameB,
                         role |-> "user", status |-> "active"]),
     next_id |-> 3,
     trigger |-> trigger]

Init ==
    /\ entry \in {"app", "enhanced_app", "userflow_pro"}
    /\ config \in {"none", "anon", "full"}
    /\ now = 0
    /\ session_state = InitSession
    /\ backend \in {InitBackend(t) : t \in BOOLEAN}
    /\ lastAuth = [admin |-> Absent, user |-> Absent]
    /\ view = "none"
    /\ renderedAt = 0
    /\ lastOp = NoOp
    /\ shown = NoShown
    /\ bulk = NoBulk
    /\ opCount = 0
    /\ ended = {}

----------------------------------------------------------------------------
(* Inputs *)

Emails == {EmailA, EmailB, EmailC}
Passwords == {PwA, PwB}
Ids == 1..MaxAccounts
FailAt == 0..2

UserDatas ==
    { [full_name |-> NameA, role |-> "moderator", status |-> "inactive"],
      [role |-> "admin"],
      <<>> }

UpdateDatas ==
    { [status |-> "inactive"],
      [password |-> PwB],
      [email |-> EmailC, full_name |-> NameA, role |-> "user",
       status |-> "inactive", password |-> PwB],
      [email |-> EmailB, full_name |-> NameB, role |-> "moderator",
       status |-> "active", password |-> <<>>] }

CanCreate == backend.next_id <= MaxAccounts

\* The model issues at most MaxOps mutating requests.
CanMutate == opCount < MaxOps

----------------------------------------------------------------------------
(* Direct calls of the Remote Account Client (any caller, any argument)    *)

Record(op, r, arg) ==
    [op |-> op, ret |-> r.ret, raised |-> r.raised, calls |-> r.calls,
     arg |-> arg]

ClientFrame == UNCHANGED <<entry, config, now, lastAuth, view, renderedAt,
                           shown, bulk, ended>>

Reads == UNCHANGED <<session_state, opCount>>

Mutates == CanMutate /\ opCount' = opCount + 1 /\ UNCHANGED session_state

ClientAuthenticate ==
    \E email \in {EmailA, EmailB}, password \in Passwords, fail \in FailAt :
        LET r == authenticate_admin(backend, session_state, email, password, fail)
        IN  /\ lastOp' = Record("authenticate_admin", r,
                                [email |-> email, password |-> password])
            /\ session_state' = r.state
            /\ backend' = r.b
            /\ UNCHANGED opCount
            /\ ClientFrame

ClientGetAllUsers ==
    \E fail \in 0..1 :
        LET r == get_all_users(backend, fail)
        IN  /\ lastOp' = Record("get_all_users", r, <<>>)
            /\ backend' = r.b
            /\ Reads
            /\ ClientFrame

ClientGetUserProfile ==
    \E id \in Ids, fail \in 0..1 :
        LET r == get_user_profile(backend, id, fail)
        IN  /\ lastOp' = Record("get_user_profile", r, [id |-> id])
            /\ backend' = r.b
            /\ Reads
            /\ ClientFrame

ClientCreateUser ==
    \E email \in {EmailA, EmailC}, user_data \in UserDatas, fail \in FailAt :
        LET r == create_user(backend, email, PwA, user_data, fail)
        IN  /\ CanCreate
            /\ lastOp' = Record("create_user", r,
                                [email |-> email, user_data |-> user_data])
            /\ backend' = r.b
            /\ Mutates
            /\ ClientFrame

ClientUpdateUser ==
    \E id \in Ids, user_data \in UpdateDatas, fail \in FailAt :
        LET r == update_user(backend, id, user_data, fail)
        IN  /\ lastOp' = Record("update_user", r,
                                [id |-> id, user_data |-> user_data])
            /\ backend' = r.b
            /\ Mutates
            /\ ClientFrame

ClientDeleteUser ==
    \E id \in Ids, fail \in FailAt :
        LET r == delete_user(backend, id, fail)
        IN  /\ lastOp' = Record("delete_user", r, [id |-> id])
            /\ backend' = r.b
            /\ Mutates
            /\ ClientFrame

ClientResetPassword ==
    \E email \in {EmailA}, fail \in 0..1 :
        LET r == reset_user_password(backend, email, fail)
        IN  /\ lastOp' = Record("reset_user_password", r, [email |-> email])
            /\ backend' = r.b
            /\ Reads
            /\ ClientFrame

ClientGetUserStats ==
    \E fail \in FailAt :
        LET r == get_user_stats(backend, fail)
        IN  /\ lastOp' = Record("get_user_stats", r, <<>>)
            /\ backend' = r.b
            /\ Reads
            /\ ClientFrame

ClientSearchUsers ==
    \E query \in {<<"A">>, <<"o", "@">>}, fail \in 0..1 :
        LET r == search_users(backend, query, fail)
        IN  /\ lastOp' = Record("search_users", r, [query |-> query])
            /\ backend' = r.b
            /\ Reads
            /\ ClientFrame

ClientBulkUpdateUsers ==
    \E user_ids \in {<<1, 2>>}, user_data \in {[status |-> "inactive"],
                                               [email |-> EmailC]},
       failAt \in {0, 1}, fail \in {2} :
        LET r == bulk_update_users(backend, user_ids, user_data, failAt, fail)
        IN  /\ lastOp' = Record("bulk_update_users", r, [user_ids |-> user_ids])
            /\ backend' = r.b
            /\ Mutates
            /\ ClientFrame

ClientExportUsersData ==
    \E fail \in 0..1 :
        LET r == export_users_data(backend, fail)
        IN  /\ lastOp' = Record("export_users_data", r, <<>>)
            /\ backend' = r.b
            /\ Reads
            /\ ClientFrame

NextClient ==
    \/ ClientAuthenticate
    \/ ClientGetAllUsers
    \/ ClientGetUserProfile
    \/ ClientCreateUser
    \/ ClientUpdateUser
    \/ ClientDeleteUser
    \/ ClientResetPassword
    \/ ClientGetUserStats
    \/ ClientSearchUsers
    \/ ClientBulkUpdateUsers
    \/ ClientExportUsersData

\* The client alone: the live backend is configured.
InitClient ==
    /\ Init
    /\ entry = "enhanced_app"
    /\ config = "full"

SpecClient == InitClient /\ [][NextClient]_vars

----------------------------------------------------------------------------
(* Script runs of the gates: app.py / enhanced_app.py main(),              *)
(* userflow_pro.py main(), utils/auth.py login_form,                       *)
(* utils/user_auth.py show_login_form / show_signup_form                   *)

ApplyRun(r) ==
    /\ session_state' = r.state
    /\ view' = r.view
    /\ ended' = r.ended
    /\ renderedAt' = now

GateFrame == UNCHANGED <<entry, config, now, shown, bulk, opCount>>

\* Any run in which no widget is clicked (first load, refresh, navigation).
Render ==
    \E fail \in 0..1 :
        /\ ApplyRun(Page(entry, session_state, now, config, fail))
        /\ UNCHANGED <<backend, lastAuth, lastOp>>
        /\ GateFrame

\* show_app_selector: "Launch User Portal" / "Launch Admin Dashboard".
Launch ==
    \E mode \in {"user", "admin"}, fail \in 0..1 :
        /\ entry = "userflow_pro"
        /\ view \in {"selector", "selector_error"}
        /\ Mode(entry, session_state) = "none"
        /\ ApplyRun(Page(entry, [session_state EXCEPT !.app_mode = mode],
                         now, config, fail))
        /\ UNCHANGED <<backend, lastAuth, lastOp>>
        /\ GateFrame

\* "Back to Home" in either sidebar of userflow_pro.py.
BackToHome ==
    \E fail \in 0..1 :
        LET base == Page(entry, session_state, now, config, fail)
        IN  /\ entry = "userflow_pro"
            /\ view \in {"protected", "user_portal"}
            /\ IF base.view = view
               THEN ApplyRun(Page(entry, [base.state EXCEPT !.app_mode = "none"],
                                  now, config, fail))
               ELSE ApplyRun(base)
            /\ UNCHANGED <<backend, lastAuth, lastOp>>
            /\ GateFrame

\* The sidebar's "Logout" button of the admin dashboard.
AdminLogoutClick ==
    LET base == AdminPage(session_state, now)
        after == AdminPage(logout(base.state), now)
    IN  /\ Mode(entry, session_state) = "admin"
        /\ view = "protected"
        /\ IF base.view = "protected"
           THEN ApplyRun([after EXCEPT !.ended = {"admin"}])
           ELSE ApplyRun(base)
        /\ UNCHANGED <<backend, lastAuth, lastOp>>
        /\ GateFrame

\* Variant: the default credentials are also tried when the constructed
\* client refuses the login.
login_form_default_after_refusal(b, s, t, cfg, email, password, fail) ==
    LET stay == [state |-> s, view |-> "login", ended |-> {}, authed |-> FALSE]
        r == authenticate_admin(b, s, email, password, fail)
        demo == create_session(s, [id |-> demo_admin_id, email |-> email], t)
    IN  IF email = <<>> \/ password = <<>> THEN stay
        ELSE IF SupabaseAdminConstructs(cfg) /\ r.ret
        THEN AdminPage(r.state, t) @@ [authed |-> TRUE]
        ELSE IF email = default_email /\ password = default_password
        THEN AdminPage(demo, t) @@ [authed |-> TRUE]
        ELSE stay

\* login_form with the "Login" button pressed.  authed: an authentication
\* succeeded in this run.
login_form(b, s, t, cfg, email, password, fail) ==
    LET stay == [state |-> s, view |-> "login", ended |-> {}, authed |-> FALSE]
        r == authenticate_admin(b, s, email, password, fail)
        demo == create_session(s, [id |-> demo_admin_id, email |-> email], t)
    IN  IF email = <<>> \/ password = <<>> THEN stay
        ELSE IF SupabaseAdminConstructs(cfg)
        THEN IF r.ret
             THEN AdminPage(r.state, t) @@ [authed |-> TRUE]
             ELSE stay
        ELSE IF email = default_email /\ password = default_password
        THEN AdminPage(demo, t) @@ [authed |-> TRUE]
        ELSE stay

AdminLoginSubmit ==
    \E email \in {<<>>, default_email, EmailA, EmailB},
       password \in {default_password, PwA}, fail \in FailAt :
        LET r == login_form(backend, session_state, now, config,
                            email, password, fail)
        IN  /\ Mode(entry, session_state) = "admin"
            /\ view = "login"
            /\ ~is_admin_authenticated(session_state)
            /\ ApplyRun(r)
            /\ lastAuth' = IF r.authed THEN [lastAuth EXCEPT !.admin = <<now>>]
                           ELSE lastAuth
            /\ UNCHANGED <<backend, lastOp>>
            /\ GateFrame

\* show_login_form with "Login" pressed; the form is rendered by every run
\* that shows the auth page.
UserLoginSubmit ==
    \E email \in {<<>>, EmailA, EmailB}, password \in {PwA, PwB},
       fail \in FailAt, failOut \in 0..1 :
        LET base == UserPage(session_state, now, config, failOut)
            r == sign_in(backend, base.state, email, password, now, fail)
            ok == base.view = "user_auth" /\ email # <<>> /\ password # <<>>
                  /\ r.ret
        IN  /\ Mode(entry, session_state) = "user"
            /\ view = "user_auth"
            /\ IF ok THEN ApplyRun(UserPage(r.state, now, config, failOut))
                     ELSE ApplyRun(base)
            /\ lastAuth' = IF ok THEN [lastAuth EXCEPT !.user = <<now>>]
                           ELSE lastAuth
            /\ UNCHANGED <<backend, lastOp>>
            /\ GateFrame

\* show_signup_form with "Create Account" pressed.
SignupErrors(full_name, email, password, confirm_password, agree_terms) ==
    \/ full_name = <<>>
    \/ email = <<>>
    \/ password = <<>>
    \/ Len(password) < MinSignupPassword
    \/ password # confirm_password
    \/ ~agree_terms

\* The handler of "Create Account": called tells whether sign_up was called.
show_signup_form(b, s, full_name, email, password, confirm_password, agree_terms, t, fail) ==
    IF SignupErrors(full_name, email, password, confirm_password, agree_terms)
    THEN [called |-> FALSE, ret |-> FALSE, state |-> s, b |-> b]
    ELSE sign_up(b, s, email, password, t, fail) @@ [called |-> TRUE]

UserSignupSubmit ==
    \E full_name \in {<<>>, NameA}, email \in {EmailB, EmailC},
       password \in {PwA, <<"a", "1">>}, confirm_password \in {PwA, PwB},
       agree_terms \in BOOLEAN, fail \in 0..1, failOut \in 0..1 :
        LET base == UserPage(session_state, now, config, failOut)
            r == show_signup_form(backend, base.state, full_name, email,
                                  password, confirm_password, agree_terms,
                                  now, fail)
            tried == base.view = "user_auth" /\ r.called
            ok == tried /\ r.ret
        IN  /\ Mode(entry, session_state) = "user"
            /\ view = "user_auth"
            /\ CanCreate
            /\ IF ok THEN ApplyRun(UserPage(r.state, now, config, failOut))
                     ELSE ApplyRun(base)
            /\ backend' = IF tried THEN r.b ELSE backend
            /\ lastAuth' = IF ok THEN [lastAuth EXCEPT !.user = <<now>>]
                           ELSE lastAuth
            /\ UNCHANGED lastOp
            /\ GateFrame

\* The user portal's "Logout" button: sign_out(), then st.rerun().
UserLogoutClick ==
    \E fail \in 0..1, failOut \in 0..1 :
        LET base == UserPage(session_state, now, config, failOut)
            r == sign_out(base.state, fail)
            after == UserPage(r.state, now, config, failOut)
        IN  /\ Mode(entry, session_state) = "user"
            /\ view = "user_portal"
            /\ IF base.view = "user_portal"
               THEN ApplyRun([after EXCEPT !.ended = {"user"}])
               ELSE ApplyRun(base)
            /\ UNCHANGED <<backend, lastAuth, lastOp>>
            /\ GateFrame

\* Time passes between two script runs.
Tick ==
    \E d \in Ticks :
        /\ now + d <= MaxNow
        /\ now' = now + d
        /\ UNCHANGED <<entry, config, session_state, backend, lastAuth, view,
                       renderedAt, lastOp, shown, bulk, opCount, ended>>

\* The deployment's secrets are edited.
ChangeConfig ==
    /\ config' \in {"none", "anon", "full"} \ {config}
    /\ UNCHANGED <<entry, now, session_state, backend, lastAuth, view,
                   renderedAt, lastOp, shown, bulk, opCount, ended>>

NextAuth ==
    \/ Render
    \/ Launch
    \/ BackToHome
    \/ AdminLogoutClick
    \/ AdminLoginSubmit
    \/ UserLoginSubmit
    \/ UserSignupSubmit
    \/ UserLogoutClick
    \/ Tick
    \/ ChangeConfig

SpecAuth == Init /\ [][NextAuth]_vars

----------------------------------------------------------------------------
(* enhanced_app.py / app.py : render_user_management, the table            *)

\* The demo records; their IDs 'user-1'..'user-4' are 101..104.
demo_users ==
    << [ID |-> 101, Email |-> default_email, FullName |-> <<"A", "d", "m", "i", "n", " ", "U", "s", "e", "r">>,
        Role |-> "Admin", Status |-> "Active"],
       [ID |-> 102, Email |-> <<"j", "o", "h", "n", ".", "d", "o", "e", "@", "e", "x", "a", "m", "p", "l", "e", ".", "c", "o", "m">>, FullName |-> <<"J", "o", "h", "n", " ", "D", "o", "e">>,
        Role |-> "User", Status |-> "Active"],
       [ID |-> 103, Email |-> <<"j", "a", "n", "e", ".", "s", "m", "i", "t", "h", "@", "e", "x", "a", "m", "p", "l", "e", ".", "c", "o", "m">>, FullName |-> <<"J", "a", "n", "e", " ", "S", "m", "i", "t", "h">>,
        Role |-> "User", Status |-> "Inactive"],
       [ID |-> 104, Email |-> <<"m", "i", "k", "e", ".", "w", "i", "l", "s", "o", "n", "@", "e", "x", "a", "m", "p", "l", "e", ".", "c", "o", "m">>, FullName |-> <<"M", "i", "k", "e", " ", "W", "i", "l", "s", "o", "n">>,
        Role |-> "Moderator", Status |-> "Active"] >>

\* The DataFrame built from get_all_users: no 'Full Name' and no 'Role'
\* column, Status derived from email_confirmed_at.
LiveRow(user) ==
    [ID |-> user.id, Email |-> user.email, FullName |-> <<>>, Role |-> "",
     Status |-> IF user.email_confirmed_at THEN "Active" ELSE "Pending"]

RECURSIVE LiveRows(_)
LiveRows(users) ==
    IF users = <<>> THEN <<>>
    ELSE <<LiveRow(Head(users))>> \o LiveRows(Tail(users))

\* users_df, with the optional columns it has.
users_df(live, b, fail) ==
    IF live
    THEN [rows |-> LiveRows(get_all_users(b, fail).ret),
          hasName |-> FALSE, hasRole |-> FALSE]
    ELSE [rows |-> demo_users, hasName |-> TRUE, hasRole |-> TRUE]

\* "Apply filters" with the status comparison nested under the role filter.
filtered_df_status_under_role(df, search_query, role_filter, status_filter) ==
    LET Keep(r) ==
            /\ search_query # <<>> =>
                  \/ str_contains(r.Email, search_query)
                  \/ df.hasName /\ str_contains(r.FullName, search_query)
            /\ (role_filter # "All" /\ df.hasRole) =>
                  /\ r.Role = role_filter
                  /\ status_filter # "All" => r.Status = status_filter
    IN  SelectSeq(df.rows, Keep)

\* "Apply filters"
filtered_df(df, search_query, role_filter, status_filter) ==
    LET Keep(r) ==
            /\ search_query # <<>> =>
                  \/ str_contains(r.Email, search_query)
                  \/ df.hasName /\ str_contains(r.FullName, search_query)
            /\ (role_filter # "All" /\ df.hasRole) => r.Role = role_filter
            /\ status_filter # "All" => r.Status = status_filter
    IN  SelectSeq(df.rows, Keep)

RECURSIVE RowIds(_)
RowIds(rows) ==
    IF rows = <<>> THEN <<>> ELSE <<Head(rows).ID>> \o RowIds(Tail(rows))

RoleFilters == {"All", "Admin", "User", "Moderator"}
StatusFilters == {"All", "Active", "Inactive", "Suspended"}

\* Search queries: every string over QueryAlphabet up to MaxQueryLen.
QueryAlphabet == {"J", "."}
Queries == UNION {[1..n -> QueryAlphabet] : n \in 0..MaxQueryLen}

\* A run of the admin dashboard on the "User Management" page.
RenderUserManagement ==
    \E search_query \in Queries, role_filter \in RoleFilters,
       status_filter \in StatusFilters, fail \in 0..1 :
        LET base == AdminPage(session_state, now)
            live == SupabaseAdminConstructs(config)
            df == users_df(live, backend, fail)
            out == filtered_df(df, search_query, role_filter, status_filter)
        IN  /\ entry \in {"app", "enhanced_app"}
            /\ view = "protected"
            /\ ApplyRun(base)
            /\ shown' = IF base.view # "protected" THEN NoShown
                        ELSE [source |-> IF ~live THEN "demo"
                                         ELSE IF fail = 1 THEN "failed"
                                         ELSE "live",
                              search_query |-> search_query,
                              role_filter |-> role_filter,
                              status_filter |-> status_filter,
                              ids |-> RowIds(out)]
            /\ UNCHANGED <<entry, config, now, backend, lastAuth, lastOp,
                           bulk, opCount>>

NextFilter ==
    \/ Render
    \/ AdminLoginSubmit
    \/ ChangeConfig
    \/ RenderUserManagement

\* The filter over varying record collections: the second account's
\* profile and confirmation state are drawn from their ranges.
FilterBackends ==
    {[InitBackend(FALSE) EXCEPT
         !.auth_users[2].email_confirmed = c,
         !.profiles[2].role = r,
         !.profiles[2].status = st] :
       c \in BOOLEAN, r \in {"moderator"}, st \in {"suspended"}}

InitFilter ==
    /\ entry = "enhanced_app"
    /\ config \in {"anon", "full"}
    /\ now = 0
    /\ session_state = InitSession
    /\ backend \in FilterBackends
    /\ lastAuth = [admin |-> Absent, user |-> Absent]
    /\ view = "none"
    /\ renderedAt = 0
    /\ lastOp = NoOp
    /\ shown = NoShown
    /\ bulk = NoBulk
    /\ opCount = 0
    /\ ended = {}

SpecFilter == InitFilter /\ [][NextFilter]_vars

----------------------------------------------------------------------------
(* components/user_forms.py and enhanced_app.py : the CRUD forms that     *)
(* handle_modals renders, the row buttons and the bulk form                *)

\* Variant: the entry is appended a second time.
log_admin_action_twice(s, action, details, t) ==
    IF Present(get_current_admin(s))
    THEN LET e == [admin_id |-> Val(get_current_admin(s)).id,
                   admin_email |-> Val(get_current_admin(s)).email,
                   action |-> action,
                   details |-> details,
                   timestamp |-> t,
                   ip_address |-> "127.0.0.1"]
         IN  [s EXCEPT !.audit_logs = Append(Append(@, e), e)]
    ELSE s

\* log_admin_action: one entry appended when there is a current admin.
log_admin_action(s, action, details, t) ==
    IF Present(get_current_admin(s))
    THEN [s EXCEPT !.audit_logs =
             Append(@, [admin_id |-> Val(get_current_admin(s)).id,
                        admin_email |-> Val(get_current_admin(s)).email,
                        action |-> action,
                        details |-> details,
                        timestamp |-> t,
                        ip_address |-> "127.0.0.1"])]
    ELSE s

Letters == SeqRange(UpperCase) \cup SeqRange(LowerCase)
Digits == {"0", "1", "2", "3", "4", "5", "6", "7", "8", "9"}
LocalChars == Letters \cup Digits \cup {".", "_", "%", "+", "-"}
DomainChars == Letters \cup Digits \cup {".", "-"}

\* ^[a-zA-Z0-9._%+-]+@[a-zA-Z0-9.-]+\.[a-zA-Z]{2,}$
validate_email(email) ==
    \E at \in 2..Len(email) :
        /\ email[at] = "@"
        /\ \A k \in 1..(at - 1) : email[k] \in LocalChars
        /\ \E dot \in (at + 2)..(Len(email) - 2) :
              /\ email[dot] = "."
              /\ \A k \in (at + 1)..(dot - 1) : email[k] \in DomainChars
              /\ \A k \in (dot + 1)..Len(email) : email[k] \in Letters

\* The boolean of validate_password's result.
validate_password(password) ==
    /\ Len(password) >= MinPasswordLength
    /\ \E k \in 1..Len(password) : password[k] \in Letters
    /\ \E k \in 1..Len(password) : password[k] \in Digits

\* str.lower() on an option of a role or status selectbox.
lower(word) ==
    CASE word = "User" -> "user"
      [] word = "Admin" -> "admin"
      [] word = "Moderator" -> "moderator"
      [] word = "Active" -> "active"
      [] word = "Inactive" -> "inactive"
      [] OTHER -> word

\* The option a stored role or status preselects.
Title(word) ==
    CASE word = "admin" -> "Admin"
      [] word = "user" -> "User"
      [] word = "moderator" -> "Moderator"
      [] word = "active" -> "Active"
      [] word = "inactive" -> "Inactive"
      [] word = "suspended" -> "Suspended"
      [] OTHER -> ""

\* A form handler yields [state, b, op, submitted]: the session, the
\* backend, the client call it made (NoOp: none) and whether the submission
\* passed validation.
Rejected(s, b) == [state |-> s, b |-> b, op |-> NoOp, submitted |-> FALSE]

\* add_user_form with "Create User" pressed.
add_user_form(b, s, live, email, password, full_name, role, status, fail, t) ==
    LET errors == \/ email = <<>>
                  \/ ~validate_email(email)
                  \/ password = <<>>
                  \/ ~validate_password(password)
        user_data == [full_name |-> full_name, role |-> lower(role),
                      status |-> lower(status)]
        c == create_user(b, email, password, user_data, fail)
        success == IF live THEN c.ret ELSE TRUE
        logged == log_admin_action(s, "create_user",
                     [email |-> email, role |-> role, department |-> <<>>], t)
    IN  IF errors THEN Rejected(s, b)
        ELSE [state |-> IF success THEN [logged EXCEPT !.show_add_user = FALSE]
                        ELSE s,
              b |-> IF live THEN c.b ELSE b,
              op |-> IF live
                     THEN Record("create_user", c,
                                 [id |-> c.calls[1].id, email |-> email])
                     ELSE NoOp,
              submitted |-> TRUE]

\* The demo records edit_user_form knows: 'user-1' and 'user-2'.
edit_demo_users ==
    (101 :> [email |-> demo_users[1].Email, full_name |-> demo_users[1].FullName,
             role |-> "admin", status |-> "active"]) @@
    (102 :> [email |-> demo_users[2].Email, full_name |-> demo_users[2].FullName,
             role |-> "user", status |-> "active"])

\* The record edit_user_form loads: <<profile>>, or <<>> ("User not found").
edit_user_profile(b, live, user_id, failGet) ==
    IF live THEN get_user_profile(b, user_id, IF failGet THEN 1 ELSE 0).ret
    ELSE IF user_id \in DOMAIN edit_demo_users THEN <<edit_demo_users[user_id]>>
    ELSE <<>>

\* list.index raises ValueError for a stored role or status that is not
\* among the options of the selectbox.
EditFormRenders(profile) ==
    /\ profile.role \in {"user", "admin", "moderator"}
    /\ profile.status \in {"active", "inactive"}

\* edit_user_form with "Update User" pressed.
edit_user_form(b, s, live, user_id, email, full_name, role, status, new_password, fail, t) ==
    LET errors == \/ email = <<>>
                  \/ ~validate_email(email)
                  \/ new_password # <<>> /\ ~validate_password(new_password)
        base_data == [email |-> email, full_name |-> full_name,
                      role |-> lower(role), status |-> lower(status)]
        update_data == IF new_password # <<>>
                       THEN base_data @@ [password |-> new_password]
                       ELSE base_data
        c == update_user(b, user_id, update_data, fail)
        success == IF live THEN c.ret ELSE TRUE
        logged == log_admin_action(s, "update_user",
                     [user_id |-> user_id, email |-> email,
                      changes |-> update_data], t)
    IN  IF errors THEN Rejected(s, b)
        ELSE [state |-> IF success
                        THEN [logged EXCEPT !.show_edit_user = FALSE,
                                            !.edit_user_id = Absent]
                        ELSE s,
              b |-> IF live THEN c.b ELSE b,
              op |-> IF live
                     THEN Record("update_user", c,
                                 [id |-> user_id, email |-> email])
                     ELSE NoOp,
              submitted |-> TRUE]

\* delete_user_confirmation with "Yes, Delete User" pressed.
delete_user_confirmation(b, s, live, user_id, user_email, fail, t) ==
    LET c == delete_user(b, user_id, fail)
        success == IF live THEN c.ret ELSE TRUE
        logged == log_admin_action(s, "delete_user",
                     [user_id |-> user_id, email |-> user_email], t)
    IN  [state |-> IF success
                   THEN [logged EXCEPT !.show_delete_user = FALSE,
                                       !.delete_user_id = Absent]
                   ELSE s,
         b |-> IF live THEN c.b ELSE b,
         op |-> IF live
                THEN Record("delete_user", c,
                            [id |-> user_id, email |-> user_email])
                ELSE NoOp,
         submitted |-> TRUE]

\* reset_password_form, "Send reset email" / "Send Reset Email" pressed.
reset_password_email(b, s, live, user_id, user_email, fail, t) ==
    LET c == reset_user_password(b, user_email, fail)
        success == IF live THEN c.ret ELSE TRUE
        logged == log_admin_action(s, "password_reset_email",
                     [user_id |-> user_id, email |-> user_email], t)
    IN  [state |-> IF success THEN logged ELSE s,
         b |-> IF live THEN c.b ELSE b,
         op |-> IF live
                THEN Record("reset_user_password", c,
                            [id |-> user_id, email |-> user_email])
                ELSE NoOp,
         submitted |-> TRUE]

\* reset_password_form, "Set new password manually" / "Set New Password".
reset_password_manual(b, s, live, user_id, user_email, new_password, confirm_password, fail, t) ==
    LET errors == \/ new_password = <<>>
                  \/ ~validate_password(new_password)
                  \/ new_password # confirm_password
        c == update_user(b, user_id, [password |-> new_password], fail)
        success == IF live THEN c.ret ELSE TRUE
        logged == log_admin_action(s, "password_reset_manual",
                     [user_id |-> user_id, email |-> user_email], t)
    IN  IF errors THEN Rejected(s, b)
        ELSE [state |-> IF success
                        THEN [logged EXCEPT !.show_reset_password = FALSE,
                                            !.reset_user_id = Absent]
                        ELSE s,
              b |-> IF live THEN c.b ELSE b,
              op |-> IF live
                     THEN Record("update_user", c,
                                 [id |-> user_id, email |-> user_email])
                     ELSE NoOp,
              submitted |-> TRUE]

BulkOperations == {"Activate Users", "Deactivate Users", "Change Role",
                   "Delete Users", "Send Password Reset"}

\* The Remote Account Client operation a bulk operation calls per id.
BulkClientOp(operation) ==
    CASE operation = "Delete Users" -> "delete_user"
      [] operation = "Send Password Reset" -> "none"
      [] OTHER -> "update_user"

RECURSIVE bulk_loop(_, _, _, _, _, _, _, _)

\* Variant: the loop is left at the first identifier that fails.
bulk_loop_break_on_failure(b, live, operation, new_role, selected, k, failed, failPos) ==
    IF k > Len(selected)
    THEN [b |-> b, success_count |-> 0, calls |-> <<>>]
    ELSE LET user_id == selected[k]
             fail == IF user_id \in failed THEN failPos ELSE 0
             called == live /\ operation # "Send Password Reset"
             r == CASE operation = "Activate Users" ->
                         update_user(b, user_id, [status |-> "active"], fail)
                    [] operation = "Deactivate Users" ->
                         update_user(b, user_id, [status |-> "inactive"], fail)
                    [] operation = "Change Role" ->
                         update_user(b, user_id, [role |-> lower(new_role)], fail)
                    [] operation = "Delete Users" ->
                         delete_user(b, user_id, fail)
                    [] OTHER -> Returned(TRUE, b, <<>>)
             success == IF called THEN r.ret ELSE TRUE
             this == [op |-> IF called THEN BulkClientOp(operation) ELSE "none",
                      id |-> user_id, ret |-> success]
             rest == bulk_loop(IF called THEN r.b ELSE b, live, operation,
                               new_role, selected, k + 1, failed, failPos)
         IN  IF ~success
             THEN [b |-> IF called THEN r.b ELSE b, success_count |-> 0,
                   calls |-> <<this>>]
             ELSE [b |-> rest.b,
                   success_count |-> rest.success_count + 1,
                   calls |-> <<this>> \o rest.calls]

\* The for loop of bulk_operations_form from position k of the selection:
\* the backend afterwards, the successes counted, and per identifier the
\* client call made for it (op "none": no call) and its success flag.
\* failed: the identifiers whose backend call raises; failPos: which call.
bulk_loop(b, live, operation, new_role, selected, k, failed, failPos) ==
    IF k > Len(selected)
    THEN [b |-> b, success_count |-> 0, calls |-> <<>>]
    ELSE LET user_id == selected[k]
             fail == IF user_id \in failed THEN failPos ELSE 0
             called == live /\ operation # "Send Password Reset"
             r == CASE operation = "Activate Users" ->
                         update_user(b, user_id, [status |-> "active"], fail)
                    [] operation = "Deactivate Users" ->
                         update_user(b, user_id, [status |-> "inactive"], fail)
                    [] operation = "Change Role" ->
                         update_user(b, user_id, [role |-> lower(new_role)], fail)
                    [] operation = "Delete Users" ->
                         delete_user(b, user_id, fail)
                    [] OTHER -> Returned(TRUE, b, <<>>)
             success == IF called THEN r.ret ELSE TRUE
             this == [op |-> IF called THEN BulkClientOp(operation) ELSE "none",
                      id |-> user_id, ret |-> success]
             rest == bulk_loop(IF called THEN r.b ELSE b, live, operation,
                               new_role, selected, k + 1, failed, failPos)
         IN  [b |-> rest.b,
              success_count |-> rest.success_count + (IF success THEN 1 ELSE 0),
              calls |-> <<this>> \o rest.calls]

\* bulk_operations_form with "Execute <operation>" pressed: [state, b, bulk].
bulk_operations_form(b, s, live, operation, new_role, selected, failed, failPos, t) ==
    LET l == bulk_loop(b, live, operation, new_role, selected, 1, failed, failPos)
        logged == log_admin_action(s, "bulk_operation",
                     [operation |-> operation, user_count |-> l.success_count,
                      user_ids |-> selected], t)
    IN  [state |-> IF l.success_count > 0 THEN logged ELSE s,
         b |-> l.b,
         bulk |-> [operation |-> operation, selected |-> selected,
                   failed |-> failed, success_count |-> l.success_count,
                   reported |-> IF l.success_count > 0 THEN "completed"
                                ELSE "failed_for_all",
                   calls |-> l.calls]]

----------------------------------------------------------------------------
(* Script runs of enhanced_app.py main() with a form widget clicked        *)

FormFrame == UNCHANGED <<entry, config, now, lastAuth, shown>>

\* The modals handle_modals renders.
OpenModals(s) ==
    {m \in {"add", "edit", "delete", "reset"} :
        CASE m = "add" -> s.show_add_user
          [] m = "edit" -> s.show_edit_user /\ Present(s.edit_user_id)
          [] m = "delete" -> /\ s.show_delete_user
                             /\ Present(s.delete_user_id)
                             /\ Present(s.delete_user_email)
          [] OTHER -> /\ s.show_reset_password
                      /\ Present(s.reset_user_id)
                      /\ Present(s.reset_user_email)}

\* The model opens at most MaxPending modals at a time.
CanOpen(s) == Cardinality(OpenModals(s)) < MaxPending

\* A run past the gate that ends in the protected view.
Admitted(s) == [state |-> s, view |-> "protected", ended |-> {}]

\* The model submits at most MaxSubmits forms.
CanSubmit == opCount < MaxSubmits

\* The run of a clicked form: the gate, then the handler's outcome r.
ApplyForm(base, r) ==
    /\ entry = "enhanced_app"
    /\ view = "protected"
    /\ CanSubmit
    /\ IF base.view = "protected"
       THEN /\ ApplyRun(Admitted(r.state))
            /\ backend' = r.b
            /\ lastOp' = r.op
            /\ opCount' = opCount + (IF r.submitted THEN 1 ELSE 0)
       ELSE /\ ApplyRun(base)
            /\ UNCHANGED <<backend, lastOp, opCount>>
    /\ bulk' = NoBulk
    /\ FormFrame

\* A click that only changes st.session_state.
ApplyClick(base, s2) ==
    /\ entry = "enhanced_app"
    /\ view = "protected"
    /\ IF base.view = "protected" THEN ApplyRun(Admitted(s2))
                                  ELSE ApplyRun(base)
    /\ UNCHANGED <<backend, lastOp, opCount, bulk>>
    /\ FormFrame

\* render_user_management: the "Add User" button.
AddUserClick ==
    LET base == AdminPage(session_state, now)
    IN  /\ CanOpen(session_state)
        /\ ApplyClick(base, [base.state EXCEPT !.show_add_user = TRUE])

\* render_user_management: a row's edit, reset-password or delete button.
RowClick ==
    \E kind \in {"edit", "reset", "delete"} :
        LET base == AdminPage(session_state, now)
            live == SupabaseAdminConstructs(config)
            rows == users_df(live, backend, 0).rows
        IN  \E k \in 1..Len(rows) :
                LET user == rows[k]
                    s == base.state
                IN  /\ k <= MaxRow
                    /\ CanOpen(session_state)
                    /\ ApplyClick(base,
                         CASE kind = "edit" ->
                                [s EXCEPT !.edit_user_id = <<user.ID>>,
                                          !.show_edit_user = TRUE]
                           [] kind = "reset" ->
                                [s EXCEPT !.reset_user_id = <<user.ID>>,
                                          !.reset_user_email = <<user.Email>>,
                                          !.show_reset_password = TRUE]
                           [] OTHER ->
                                [s EXCEPT !.delete_user_id = <<user.ID>>,
                                          !.delete_user_email = <<user.Email>>,
                                          !.show_delete_user = TRUE])

\* Variant: "Cancel" closes the modal and leaves the staged identifier.
FormCancel_keeping_staged_id ==
    \E m \in OpenModals(session_state) :
        LET base == AdminPage(session_state, now)
            s == base.state
        IN  ApplyClick(base,
              CASE m = "add" -> [s EXCEPT !.show_add_user = FALSE]
                [] m = "edit" -> [s EXCEPT !.show_edit_user = FALSE]
                [] m = "delete" -> [s EXCEPT !.show_delete_user = FALSE]
                [] OTHER -> [s EXCEPT !.show_reset_password = FALSE])

\* The "Cancel" button of an open modal.
FormCancel ==
    \E m \in OpenModals(session_state) :
        LET base == AdminPage(session_state, now)
            s == base.state
        IN  ApplyClick(base,
              CASE m = "add" -> [s EXCEPT !.show_add_user = FALSE]
                [] m = "edit" -> [s EXCEPT !.show_edit_user = FALSE,
                                           !.edit_user_id = Absent]
                [] m = "delete" -> [s EXCEPT !.show_delete_user = FALSE,
                                             !.delete_user_id = Absent]
                [] OTHER -> [s EXCEPT !.show_reset_password = FALSE,
                                      !.reset_user_id = Absent])

WeakPassword == <<"a", "b", "c", "1">>
BadEmail == <<"c", "y", "@", "a", "b">>

AddUserSubmit ==
    \E email \in {EmailC, EmailA, BadEmail}, password \in {PwA, WeakPassword},
       role \in {"Moderator"}, status \in {"Inactive"}, fail \in FailAt :
        LET base == AdminPage(session_state, now)
            live == SupabaseAdminConstructs(config)
        IN  /\ "add" \in OpenModals(session_state)
            /\ live => CanCreate
            /\ ApplyForm(base, add_user_form(backend, base.state, live, email,
                                 password, NameA, role, status, fail, now))

EditUserSubmit ==
    \E changeEmail \in BOOLEAN, status \in {"Inactive"},
       new_password \in {<<>>, PwB, WeakPassword}, fail \in FailAt :
        LET base == AdminPage(session_state, now)
            live == SupabaseAdminConstructs(config)
            user_id == Val(session_state.edit_user_id)
            found == edit_user_profile(backend, live, user_id, FALSE)
            profile == Val(found)
        IN  /\ "edit" \in OpenModals(session_state)
            /\ Present(found)
            /\ EditFormRenders(profile)
            /\ ApplyForm(base, edit_user_form(backend, base.state, live, user_id,
                                 IF changeEmail THEN EmailC ELSE profile.email,
                                 profile.full_name, Title(profile.role), status,
                                 new_password, fail, now))

DeleteUserConfirm ==
    \E fail \in FailAt :
        LET base == AdminPage(session_state, now)
            live == SupabaseAdminConstructs(config)
        IN  /\ "delete" \in OpenModals(session_state)
            /\ ApplyForm(base, delete_user_confirmation(backend, base.state, live,
                                 Val(session_state.delete_user_id),
                                 Val(session_state.delete_user_email), fail, now))

ResetPasswordSubmit ==
    \E option \in {"Send reset email", "Set new password manually"},
       new_password \in {PwB, WeakPassword}, confirm_password \in {PwB, PwA},
       fail \in 0..1 :
        LET base == AdminPage(session_state, now)
            live == SupabaseAdminConstructs(config)
            user_id == Val(session_state.reset_user_id)
            user_email == Val(session_state.reset_user_email)
        IN  /\ "reset" \in OpenModals(session_state)
            /\ ApplyForm(base,
                 IF option = "Send reset email"
                 THEN reset_password_email(backend, base.state, live, user_id,
                                           user_email, fail, now)
                 ELSE reset_password_manual(backend, base.state, live, user_id,
                                            user_email, new_password,
                                            confirm_password, fail, now))

\* The identifiers at the positions P of ids, in order.
RECURSIVE Pick(_, _, _)
Pick(ids, P, k) ==
    IF k > Len(ids) THEN <<>>
    ELSE (IF k \in P THEN <<ids[k]>> ELSE <<>>) \o Pick(ids, P, k + 1)

\* The selections the checkboxes of the table can produce.
Selections(ids) == {Pick(ids, P, 1) : P \in SUBSET (1..Len(ids)) \ {{}}}

\* render_user_management with rows selected and the bulk form executed.
BulkExecute ==
    \E operation \in BulkOperations, failPos \in 1..2 :
        LET base == AdminPage(session_state, now)
            live == SupabaseAdminConstructs(config)
            ids == RowIds(users_df(live, backend, 0).rows)
            calls == live /\ operation # "Send Password Reset"
        IN  \E selected \in Selections(ids) :
              \E failed \in SUBSET (IF calls THEN SeqRange(selected) ELSE {}) :
                LET r == bulk_operations_form(backend, base.state, live,
                            operation, "Moderator", selected, failed,
                            failPos, now)
                IN  /\ entry = "enhanced_app"
                    /\ view = "protected"
                    /\ base.view = "protected"
                    /\ CanSubmit
                    /\ operation # "Delete Users" => failPos = 2
                    /\ ApplyRun(Admitted(r.state))
                    /\ backend' = r.b
                    /\ bulk' = r.bulk
                    /\ lastOp' = NoOp
                    /\ opCount' = opCount + 1
                    /\ FormFrame

NextForms ==
    \/ Render
    \/ AdminLoginSubmit
    \/ ChangeConfig
    \/ AddUserClick
    \/ RowClick
    \/ FormCancel
    \/ AddUserSubmit
    \/ EditUserSubmit
    \/ DeleteUserConfirm
    \/ ResetPasswordSubmit

\* The admin dashboard of enhanced_app.py, deployed without secrets.
InitForms ==
    /\ Init
    /\ entry = "enhanced_app"
    /\ config = "anon"
    /\ ~backend.trigger

SpecForms == InitForms /\ [][NextForms]_vars

\* The same dashboard, the bulk form of the user-management page alone.
NextBulk ==
    \/ Render
    \/ AdminLoginSubmit
    \/ ChangeConfig
    \/ BulkExecute

SpecBulk == InitForms /\ [][NextBulk]_vars

----------------------------------------------------------------------------
(* Properties of the forms (checked under SpecForms and SpecBulk)          *)

\* The identifiers the last bulk execution ran the loop body for.
RECURSIVE CallIds(_)
CallIds(calls) ==
    IF calls = <<>> THEN <<>> ELSE <<Head(calls).id>> \o CallIds(Tail(calls))

\* C9: a bulk execution over N selected identifiers, whose backend call
\* fails for K of them, attempts all N identifiers in spite of the failures
\* and reports a success count of N - K.
C9_BulkAttemptsAllAndCountsSuccesses ==
    bulk.operation # "none" =>
        LET N == Len(bulk.selected)
            K == Cardinality(bulk.failed)
        IN  /\ CallIds(bulk.calls) = bulk.selected
            /\ bulk.success_count = N - K
            /\ bulk.reported = "completed" <=> N - K > 0

\* A bulk execution whose first identifier failed and a later one succeeded.
C9_Witness ==
    /\ bulk.operation \in {"Deactivate Users", "Delete Users"}
    /\ Len(bulk.selected) >= 2
    /\ bulk.selected[1] \in bulk.failed
    /\ bulk.success_count >= 1

MutatingOps == {"create_user", "update_user", "delete_user"}

\* The successful create / update / delete calls of a step, in order, as
\* [op, id, email] (email: <<>> when the caller has none).
RECURSIVE BulkMutations(_)
BulkMutations(calls) ==
    IF calls = <<>> THEN <<>>
    ELSE (IF Head(calls).op \in MutatingOps /\ Head(calls).ret
          THEN <<[op |-> Head(calls).op, id |-> Head(calls).id, email |-> <<>>]>>
          ELSE <<>>) \o BulkMutations(Tail(calls))

\* The audit entry names the account: it carries its id or its email.
CarriesTarget(details, m) ==
    \/ "user_id" \in DOMAIN details /\ details["user_id"] = m.id
    \/ "email" \in DOMAIN details /\ m.email # <<>> /\ details["email"] = m.email

\* C10: every create, update or delete call of the Remote Account Client
\* that returns success, from whichever form, is followed by exactly one
\* new audit entry whose action names the operation and whose details carry
\* the target account; the entries are in the order of the mutations.
C10_EverySuccessfulMutationIsAudited ==
    [][opCount' = opCount + 1 =>
        LET old == session_state.audit_logs
            new == SubSeq(session_state'.audit_logs, Len(old) + 1,
                          Len(session_state'.audit_logs))
            muts == IF bulk'.operation # "none" THEN BulkMutations(bulk'.calls)
                    ELSE IF lastOp'.op \in MutatingOps /\ lastOp'.ret = TRUE
                    THEN <<[op |-> lastOp'.op, id |-> lastOp'.arg.id,
                            email |-> lastOp'.arg.email]>>
                    ELSE <<>>
        IN  muts # <<>> =>
               /\ Len(new) = Len(muts)
               /\ \A k \in 1..Len(muts) :
                     /\ new[k].action = muts[k].op
                     /\ CarriesTarget(new[k].details, muts[k])
      ]_vars

----------------------------------------------------------------------------
(* Properties of the user-management table (checked under SpecFilter)      *)

\* The accounts of the backend as records: email, display name, role and
\* status.
AccountRecords(b) ==
    {[ID |-> i, Email |-> b.auth_users[i].email,
      FullName |-> IF i \in DOMAIN b.profiles
                   THEN b.profiles[i].full_name ELSE <<>>,
      Role |-> IF i \in DOMAIN b.profiles
               THEN Title(b.profiles[i].role) ELSE "",
      Status |-> IF i \in DOMAIN b.profiles
                 THEN Title(b.profiles[i].status) ELSE ""] :
        i \in DOMAIN b.auth_users}

\* The three predicates of the filter, as the specification states them.
SatisfiesFilters(r, q, role_filter, status_filter) ==
    /\ q = <<>> \/ ILike(r.Email, q) \/ ILike(r.FullName, q)
    /\ role_filter = "All" \/ r.Role = role_filter
    /\ status_filter = "All" \/ r.Status = status_filter

\* C8: the rows shown by the user-management view are exactly the records
\* (demo records, or the accounts loaded from the backend) that satisfy
\* the query, the role filter and the status filter.
C8_ShownRowsAreExactlyTheMatchingRecords ==
    shown.source \in {"demo", "live"} =>
        LET records == IF shown.source = "demo" THEN SeqRange(demo_users)
                       ELSE AccountRecords(backend)
        IN  SeqRange(shown.ids) =
               {r.ID : r \in {x \in records :
                    SatisfiesFilters(x, shown.search_query, shown.role_filter,
                                     shown.status_filter)}}

----------------------------------------------------------------------------
(* Properties of the session gates (checked under SpecAuth)                *)

SessionAge(t) == t - Val(session_state.session_created)

\* C1: a protected admin view is rendered only if the admin is marked
\* authenticated and the session validates: a token and a creation time
\* are present and the session is at most 24 hours old at that run.
C1_ProtectedViewOnlyWithValidSession ==
    view = "protected" =>
        /\ session_state.admin_authenticated
        /\ session_state.session_token
        /\ Present(session_state.session_created)
        /\ SessionAge(renderedAt) <= SessionHours

\* The protected view rendered for a session exactly 24 hours old.
C1_Witness ==
    /\ view = "protected"
    /\ Present(session_state.session_created)
    /\ SessionAge(renderedAt) = SessionHours

\* C2: for both gates validate_session returns false if and only if no
\* session exists or the session is more than 24 hours old.
C2_ValidateSessionFalseIffMissingOrExpired ==
    LET s == session_state
        expired == Present(s.session_created) /\ SessionAge(now) > SessionHours
        noAdminSession == ~s.session_token \/ ~Present(s.session_created)
        noUserSession == ~s.user_authenticated \/ ~Present(s.session_created)
    IN  /\ validate_session(s, now).result = "False"
              <=> (noAdminSession \/ expired)
        /\ \A fail \in 0..1 :
              user_validate_session(s, now, fail).ret = FALSE
                 <=> (noUserSession \/ expired)

\* C3: after a run that ended a session (validate_session failed, or
\* logout / sign_out was invoked) every field of that session is absent.
C3_EndedSessionIsCleared ==
    /\ "admin" \in ended =>
          /\ ~session_state.admin_authenticated
          /\ session_state.admin_user = Absent
          /\ ~session_state.session_token
          /\ session_state.session_created = Absent
    /\ "user" \in ended =>
          /\ session_state.user = Absent
          /\ session_state.user_profile = Absent
          /\ ~session_state.user_authenticated
          /\ session_state.session_created = Absent

\* C4: whenever a gate admits a principal, at most 24 hours have passed
\* since that principal's own last successful authentication.
C4_AdmittedWithin24hOfOwnAuthentication ==
    /\ view = "protected" =>
          /\ Present(lastAuth.admin)
          /\ renderedAt - Val(lastAuth.admin) <= SessionHours
    /\ view = "user_portal" =>
          /\ Present(lastAuth.user)
          /\ renderedAt - Val(lastAuth.user) <= SessionHours

----------------------------------------------------------------------------
(* Properties of the Remote Account Client (checked under SpecClient)      *)

\* The accounts whose credentials are the given email and password.
Accepting(b, email, password) ==
    {i \in DOMAIN b.auth_users :
        /\ b.auth_users[i].email = email
        /\ b.auth_users[i].password = password}

\* C5: authenticate_admin returns True, and marks the admin authenticated,
\* only when the backend accepted the credentials and the profile of that
\* account has role 'admin'; when it returns False, admin_authenticated
\* and admin_user are what they were before the call.
C5_AuthenticateAdminOnlyForAdminRole ==
    [][lastOp'.op = "authenticate_admin" =>
        LET acc == Accepting(backend, lastOp'.arg.email, lastOp'.arg.password)
        IN  /\ lastOp'.ret = TRUE =>
                 /\ \E i \in acc : /\ i \in DOMAIN backend.profiles
                                   /\ backend.profiles[i].role = "admin"
                                   /\ session_state'.admin_user =
                                         <<[id |-> i, email |-> lastOp'.arg.email]>>
                 /\ session_state'.admin_authenticated
            /\ lastOp'.ret = FALSE =>
                 /\ session_state'.admin_authenticated
                       = session_state.admin_authenticated
                 /\ session_state'.admin_user = session_state.admin_user
      ]_vars

\* An admin was authenticated against the backend.
C5_Witness ==
    /\ lastOp.op = "authenticate_admin"
    /\ lastOp.ret = TRUE
    /\ session_state.admin_authenticated

NoRetry(calls) ==
    \A i, j \in 1..Len(calls) : calls[i] = calls[j] => i = j

\* C7: a create_user, update_user or delete_user that returns failure
\* leaves the credential records and the profile rows as they were before
\* the call, and no failed backend call is retried.
C7_FailureLeavesBackendUnchanged ==
    [][(/\ lastOp'.op \in {"create_user", "update_user", "delete_user"}
        /\ opCount' = opCount + 1
        /\ lastOp'.ret = FALSE)
         => /\ AccountState(backend') = AccountState(backend)
            /\ NoRetry(lastOp'.calls)
      ]_vars

----------------------------------------------------------------------------
(* utils/auth.py : AuthManager.log_admin_action called on its own, with    *)
(* and without a current admin, on an empty and on a filled audit store    *)

LogActions == {"create_user", "bulk_operation"}

LogDetails == {<<>>, [user_id |-> 1, email |-> EmailA]}

\* The model logs at most MaxLog actions.
CanLog == opCount < MaxLog

\* AuthManager.log_admin_action(action, details), from any caller.
LogAdminAction ==
    \E action \in LogActions, details \in LogDetails :
        /\ CanLog
        /\ session_state' = log_admin_action(session_state, action, details, now)
        /\ lastOp' = [NoOp EXCEPT !.op = "log_admin_action",
                                  !.arg = [action |-> action, details |-> details]]
        /\ opCount' = opCount + 1
        /\ UNCHANGED <<entry, config, now, backend, lastAuth, view, renderedAt,
                       shown, bulk, ended>>

NextLog ==
    \/ Render
    \/ AdminLoginSubmit
    \/ AdminLogoutClick
    \/ Tick
    \/ LogAdminAction

SpecLog == InitForms /\ [][NextLog]_vars

\* The session without its audit store.
SessionKeys == DOMAIN InitSession \ {"audit_logs"}

\* C11: log_admin_action appends exactly one entry {admin id, admin email,
\* action, details, timestamp, source address} to the audit store when the
\* session holds a current admin, and leaves the store (and every other
\* key of the session) unchanged when it holds none.
C11_LogAppendsOneEntryOrNothing ==
    [][(opCount' = opCount + 1 /\ lastOp'.op = "log_admin_action") =>
        LET admin == get_current_admin(session_state)
            old == session_state.audit_logs
            new == session_state'.audit_logs
        IN  /\ \A k \in SessionKeys : session_state'[k] = session_state[k]
            /\ IF Present(admin)
               THEN new = Append(old, [admin_id |-> Val(admin).id,
                                       admin_email |-> Val(admin).email,
                                       action |-> lastOp'.arg.action,
                                       details |-> lastOp'.arg.details,
                                       timestamp |-> now,
                                       ip_address |-> "127.0.0.1"])
               ELSE new = old
      ]_vars

\* An action logged by a current admin onto a store that already holds an
\* entry.
C11_Witness ==
    /\ lastOp.op = "log_admin_action"
    /\ Present(get_current_admin(session_state))
    /\ Len(session_state.audit_logs) = 2

\* An action logged without a current admin: the store stayed empty.
C11_WitnessNoAdmin ==
    /\ lastOp.op = "log_admin_action"
    /\ ~Present(get_current_admin(session_state))
    /\ session_state.audit_logs = <<>>

----------------------------------------------------------------------------
(* The audit store over the life of a browser session: enhanced_app.py     *)
(* with logins, logouts, expiry, forms, the bulk form and the Settings     *)
(* page's maintenance buttons                                              *)

\* render_settings_page: "Clean Audit Logs" shows a success message.
CleanAuditLogsClick ==
    LET base == AdminPage(session_state, now)
    IN  ApplyClick(base, base.state)

NextAudit ==
    \/ Render
    \/ AdminLoginSubmit
    \/ AdminLogoutClick
    \/ Tick
    \/ RowClick
    \/ DeleteUserConfirm
    \/ BulkExecute
    \/ CleanAuditLogsClick

SpecAudit == InitForms /\ [][NextAudit]_vars

----------------------------------------------------------------------------
(* Properties of the forms' local validation (checked under SpecForms)     *)

SubmittedEmails == {<<>>, BadEmail, EmailC}
SubmittedPasswords == {<<>>, WeakPassword, PwA}

\* A form handler that did nothing: no client call, the backend and the
\* session (audit store and pending-action keys included) as before.
NoEffect(r, s, b) == r.op = NoOp /\ r.b = b /\ r.state = s

\* C13: in the add-user, edit-user, manual-password-reset and sign-up
\* forms a submission with a missing or malformed email, a missing or weak
\* password or a mismatched confirmation makes no backend call, appends no
\* audit entry and leaves the pending-action state unchanged.
C13_InvalidSubmissionHasNoEffect ==
    LET s == session_state
        b == backend
        live == SupabaseAdminConstructs(config)
        BadMail(email) == email = <<>> \/ ~validate_email(email)
        BadPw(password) == password = <<>> \/ ~validate_password(password)
    IN  \A email \in SubmittedEmails, password \in SubmittedPasswords,
           confirm_password \in {PwA, PwB} :
            /\ (BadMail(email) \/ BadPw(password)) =>
                  NoEffect(add_user_form(b, s, live, email, password, NameA,
                                         "User", "Active", 0, now), s, b)
            /\ (BadMail(email) \/ (password # <<>> /\ BadPw(password))) =>
                  NoEffect(edit_user_form(b, s, live, 1, email, NameA, "User",
                                          "Active", password, 0, now), s, b)
            /\ (BadPw(password) \/ password # confirm_password) =>
                  NoEffect(reset_password_manual(b, s, live, 1, EmailA, password,
                                                 confirm_password, 0, now), s, b)
            /\ (\/ BadMail(email)
                \/ password = <<>>
                \/ Len(password) < MinSignupPassword
                \/ password # confirm_password) =>
                  LET r == show_signup_form(b, s, NameA, email, password,
                                            confirm_password, TRUE, now, 0)
                  IN  ~r.called /\ r.b = b /\ r.state = s

----------------------------------------------------------------------------
(* Properties of start-up (checked under SpecAuth)                         *)

\* C14: a backend client that cannot be initialised is never fatal: no run
\* of an entry point (the admin dashboards, the app selector, the user
\* portal) ends in the exception of a client's constructor.
C14_InitFailureIsNeverFatal ==
    view \notin {"error", "selector_error"}

----------------------------------------------------------------------------
(* Round trip of the Remote Account Client (checked under SpecClient)      *)

\* The value create_user stores for a field of F: the given one, or the
\* default ('', 'user', 'active').
GivenOrDefault(user_data, field, default) ==
    IF field \in DOMAIN user_data THEN user_data[field] ELSE default

\* C15: after create_user(email, password, F) returned True,
\* get_user_profile of the new account returns a profile whose email,
\* full_name, role and status are those of F, or the defaults where F has
\* none.
C15_CreateThenGetProfileRoundTrip ==
    [][(/\ lastOp'.op = "create_user"
        /\ opCount' = opCount + 1
        /\ lastOp'.ret = TRUE)
         => LET F == lastOp'.arg.user_data
                id == lastOp'.calls[1].id
                got == get_user_profile(backend', id, 0).ret
            IN  /\ Present(got)
                /\ Val(got).email = lastOp'.arg.email
                /\ Val(got).full_name = GivenOrDefault(F, "full_name", <<>>)
                /\ Val(got).role = GivenOrDefault(F, "role", "user")
                /\ Val(got).status = GivenOrDefault(F, "status", "active")
      ]_vars

\* An account created with a role, a status and a name of its own.
C15_Witness ==
    /\ lastOp.op = "create_user"
    /\ lastOp.ret = TRUE
    /\ DOMAIN lastOp.arg.user_data = {"full_name", "role", "status"}
    /\ backend.profiles[lastOp.calls[1].id].role = "moderator"

----------------------------------------------------------------------------
(* Schema bootstrap: utils/database_setup.py get_setup_sql / execute_setup, *)
(* and the "Run Database Setup" button of userflow_pro.py                   *)

MaxRuns == 2

\* get_setup_sql().split(';'), stripped, empty chunks dropped: one record
\* per chunk.  comment: the chunk starts with "--".  kind, obj, needs: what
\* the chunk's SQL does when it is run as one statement, the object it is
\* about and the objects it refers to.  A function body is cut at its first
\* ';', so its pieces are fragments that no server accepts; a lone END
\* commits and changes nothing.
SetupStatements ==
    << [comment |-> TRUE, kind |-> "create_if_not_exists", obj |-> "extension uuid-ossp",
            needs |-> {}],
           [comment |-> TRUE, kind |-> "create_if_not_exists", obj |-> "table profiles",
            needs |-> {}],
           [comment |-> TRUE, kind |-> "create_if_not_exists", obj |-> "table user_sessions",
            needs |-> {"extension uuid-ossp"}],
           [comment |-> TRUE, kind |-> "create_if_not_exists", obj |-> "table audit_logs",
            needs |-> {"extension uuid-ossp"}],
           [comment |-> TRUE, kind |-> "create_if_not_exists", obj |-> "table password_reset_tokens",
            needs |-> {"extension uuid-ossp"}],
           [comment |-> TRUE, kind |-> "create_if_not_exists", obj |-> "table user_preferences",
            needs |-> {"extension uuid-ossp"}],
           [comment |-> TRUE, kind |-> "fragment", obj |-> "function handle_updated_at",
            needs |-> {}],
           [comment |-> FALSE, kind |-> "fragment", obj |-> "none",
            needs |-> {}],
           [comment |-> FALSE, kind |-> "no_effect", obj |-> "none",
            needs |-> {}],
           [comment |-> FALSE, kind |-> "fragment", obj |-> "none",
            needs |-> {}],
           [comment |-> TRUE, kind |-> "create", obj |-> "trigger profiles_updated_at",
            needs |-> {"function handle_updated_at", "table profiles"}],
           [comment |-> FALSE, kind |-> "create", obj |-> "trigger user_preferences_updated_at",
            needs |-> {"function handle_updated_at", "table user_preferences"}],
           [comment |-> TRUE, kind |-> "fragment", obj |-> "function handle_new_user",
            needs |-> {}],
           [comment |-> FALSE, kind |-> "fragment", obj |-> "none",
            needs |-> {}],
           [comment |-> FALSE, kind |-> "fragment", obj |-> "none",
            needs |-> {}],
           [comment |-> FALSE, kind |-> "no_effect", obj |-> "none",
            needs |-> {}],
           [comment |-> FALSE, kind |-> "fragment", obj |-> "none",
            needs |-> {}],
           [comment |-> TRUE, kind |-> "drop_if_exists", obj |-> "trigger on_auth_user_created",
            needs |-> {}],
           [comment |-> FALSE, kind |-> "create", obj |-> "trigger on_auth_user_created",
            needs |-> {"function handle_new_user"}],
           [comment |-> TRUE, kind |-> "enable", obj |-> "rls profiles",
            needs |-> {"table profiles"}],
           [comment |-> FALSE, kind |-> "enable", obj |-> "rls user_sessions",
            needs |-> {"table user_sessions"}],
           [comment |-> FALSE, kind |-> "enable", obj |-> "rls audit_logs",
            needs |-> {"table audit_logs"}],
           [comment |-> FALSE, kind |-> "enable", obj |-> "rls password_reset_tokens",
            needs |-> {"table password_reset_tokens"}],
           [comment |-> FALSE, kind |-> "enable", obj |-> "rls user_preferences",
            needs |-> {"table user_preferences"}],
           [comment |-> TRUE, kind |-> "create", obj |-> "policy Users can view their own profile",
            needs |-> {"table profiles"}],
           [comment |-> FALSE, kind |-> "create", obj |-> "policy Users can update their own profile",
            needs |-> {"table profiles"}],
           [comment |-> FALSE, kind |-> "create", obj |-> "policy Admins can view all profiles",
            needs |-> {"table profiles"}],
           [comment |-> FALSE, kind |-> "create", obj |-> "policy Admins can insert profiles",
            needs |-> {"table profiles"}],
           [comment |-> FALSE, kind |-> "create", obj |-> "policy Admins can update all profiles",
            needs |-> {"table profiles"}],
           [comment |-> FALSE, kind |-> "create", obj |-> "policy Admins can delete profiles",
            needs |-> {"table profiles"}],
           [comment |-> TRUE, kind |-> "create", obj |-> "policy Users can view their own preferences",
            needs |-> {"table user_preferences"}],
           [comment |-> FALSE, kind |-> "create", obj |-> "policy Users can update their own preferences",
            needs |-> {"table user_preferences"}],
           [comment |-> FALSE, kind |-> "create", obj |-> "policy Users can insert their own preferences",
            needs |-> {"table user_preferences"}],
           [comment |-> TRUE, kind |-> "create", obj |-> "policy Users can view their own sessions",
            needs |-> {"table user_sessions"}],
           [comment |-> FALSE, kind |-> "create", obj |-> "policy Admins can view all sessions",
            needs |-> {"table user_sessions", "table profiles"}],
           [comment |-> FALSE, kind |-> "create", obj |-> "policy System can insert sessions",
            needs |-> {"table user_sessions"}],
           [comment |-> FALSE, kind |-> "create", obj |-> "policy System can update sessions",
            needs |-> {"table user_sessions"}],
           [comment |-> TRUE, kind |-> "create", obj |-> "policy Admins can view audit logs",
            needs |-> {"table audit_logs", "table profiles"}],
           [comment |-> FALSE, kind |-> "create", obj |-> "policy System can insert audit logs",
            needs |-> {"table audit_logs"}],
           [comment |-> TRUE, kind |-> "create", obj |-> "policy System can manage password reset tokens",
            needs |-> {"table password_reset_tokens"}],
           [comment |-> TRUE, kind |-> "create_if_not_exists", obj |-> "index idx_profiles_email",
            needs |-> {"table profiles"}],
           [comment |-> FALSE, kind |-> "create_if_not_exists", obj |-> "index idx_profiles_role",
            needs |-> {"table profiles"}],
           [comment |-> FALSE, kind |-> "create_if_not_exists", obj |-> "index idx_profiles_status",
            needs |-> {"table profiles"}],
           [comment |-> FALSE, kind |-> "create_if_not_exists", obj |-> "index idx_user_sessions_user_id",
            needs |-> {"table user_sessions"}],
           [comment |-> FALSE, kind |-> "create_if_not_exists", obj |-> "index idx_user_sessions_token",
            needs |-> {"table user_sessions"}],
           [comment |-> FALSE, kind |-> "create_if_not_exists", obj |-> "index idx_audit_logs_admin_id",
            needs |-> {"table audit_logs"}],
           [comment |-> FALSE, kind |-> "create_if_not_exists", obj |-> "index idx_audit_logs_target_user_id",
            needs |-> {"table audit_logs"}],
           [comment |-> FALSE, kind |-> "create_if_not_exists", obj |-> "index idx_audit_logs_created_at",
            needs |-> {"table audit_logs"}],
           [comment |-> FALSE, kind |-> "create_if_not_exists", obj |-> "index idx_password_reset_tokens_user_id",
            needs |-> {"table password_reset_tokens"}],
           [comment |-> FALSE, kind |-> "create_if_not_exists", obj |-> "index idx_password_reset_tokens_token",
            needs |-> {"table password_reset_tokens"}],
           [comment |-> FALSE, kind |-> "create_if_not_exists", obj |-> "index idx_user_preferences_user_id",
            needs |-> {"table user_preferences"}],
           [comment |-> TRUE, kind |-> "create_or_replace", obj |-> "view user_details",
            needs |-> {"table profiles", "table user_preferences"}],
           [comment |-> TRUE, kind |-> "insert_on_conflict", obj |-> "row auth.users entremotivator@gmail.com",
            needs |-> {}],
           [comment |-> TRUE, kind |-> "update", obj |-> "admin role entremotivator@gmail.com",
            needs |-> {"table profiles"}],
           [comment |-> TRUE, kind |-> "fragment", obj |-> "function create_admin_user",
            needs |-> {}],
           [comment |-> FALSE, kind |-> "fragment", obj |-> "none",
            needs |-> {}],
           [comment |-> TRUE, kind |-> "fragment", obj |-> "none",
            needs |-> {}],
           [comment |-> FALSE, kind |-> "fragment", obj |-> "none",
            needs |-> {}],
           [comment |-> FALSE, kind |-> "no_effect", obj |-> "none",
            needs |-> {}],
           [comment |-> FALSE, kind |-> "fragment", obj |-> "none",
            needs |-> {}],
           [comment |-> TRUE, kind |-> "enable", obj |-> "grant usage schema",
            needs |-> {}],
           [comment |-> FALSE, kind |-> "grant_tables", obj |-> "grant all tables",
            needs |-> {}],
           [comment |-> FALSE, kind |-> "enable", obj |-> "grant all sequences",
            needs |-> {}],
           [comment |-> TRUE, kind |-> "no_effect", obj |-> "none",
            needs |-> {}] >>

AdminSeedProfile == "row profiles entremotivator@gmail.com"

\* Everything a catalog can hold; exec_sql is the remote procedure the
\* setup calls, which the script itself never defines.
ObjectNames ==
    {"function exec_sql", AdminSeedProfile}
    \cup {SetupStatements[i].obj : i \in 1..Len(SetupStatements)}
    \cup UNION {SetupStatements[i].needs : i \in 1..Len(SetupStatements)}
    \cup {"grant table " \o t : t \in {"profiles", "user_sessions",
              "audit_logs", "password_reset_tokens", "user_preferences"}}

TableNames == {"profiles", "user_sessions", "audit_logs",
               "password_reset_tokens", "user_preferences"}

Exists(catalog, o) == catalog[o] > 0

AddObject(catalog, o) == [catalog EXCEPT ![o] = @ + 1]

EnsureObject(catalog, o) == [catalog EXCEPT ![o] = IF @ = 0 THEN 1 ELSE @]

\* One statement run by the server: it raises when the procedure or an
\* object it refers to is missing, when it is a fragment, and, with unique
\* names enforced, when a plain CREATE names an object that exists.
run_sql(catalog, st, unique_names) ==
    LET err == [raised |-> TRUE, catalog |-> catalog]
        ok(c) == [raised |-> FALSE, catalog |-> c]
    IN  IF \/ ~Exists(catalog, "function exec_sql")
           \/ \E n \in st.needs : ~Exists(catalog, n)
           \/ st.kind = "fragment"
        THEN err
        ELSE CASE st.kind = "create" ->
                    IF unique_names /\ Exists(catalog, st.obj) THEN err
                    ELSE ok(AddObject(catalog, st.obj))
               [] st.kind \in {"create_if_not_exists", "create_or_replace",
                               "enable"} ->
                    ok(EnsureObject(catalog, st.obj))
               [] st.kind = "drop_if_exists" ->
                    ok([catalog EXCEPT ![st.obj] = 0])
               [] st.kind = "insert_on_conflict" ->
                    IF Exists(catalog, st.obj) THEN ok(catalog)
                    ELSE ok(IF Exists(catalog, "trigger on_auth_user_created")
                            THEN AddObject(AddObject(catalog, st.obj),
                                           AdminSeedProfile)
                            ELSE AddObject(catalog, st.obj))
               [] st.kind = "update" ->
                    IF Exists(catalog, AdminSeedProfile)
                    THEN ok(EnsureObject(catalog, st.obj))
                    ELSE ok(catalog)
               [] st.kind = "grant_tables" ->
                    ok([o \in ObjectNames |->
                          IF /\ \E t \in TableNames :
                                  /\ o = "grant table " \o t
                                  /\ Exists(catalog, "table " \o t)
                             /\ catalog[o] = 0
                          THEN 1 ELSE EnsureObject(catalog, st.obj)[o]])
               [] OTHER -> ok(catalog)

exec_sql_allowing_duplicates(catalog, st) == run_sql(catalog, st, FALSE)

\* self.client.rpc('exec_sql', {'sql': statement}).execute()
exec_sql(catalog, st) == run_sql(catalog, st, TRUE)

\* The loop of execute_setup over the chunks lo..hi of the split script, in
\* order, the range taken in two halves.  acc: the catalog, success_count
\* and the chunks sent through rpc('exec_sql') so far, by position.
RECURSIVE execute_statements(_, _, _)
execute_statements(acc, lo, hi) ==
    IF lo > hi THEN acc
    ELSE IF lo = hi
    THEN LET statement == SetupStatements[lo]
             r == exec_sql(acc.catalog, statement)
         IN  IF statement.comment THEN acc
             ELSE IF r.raised
                  THEN [acc EXCEPT !.submitted = Append(@, lo)]
                  ELSE [catalog |-> r.catalog,
                        success_count |-> acc.success_count + 1,
                        submitted |-> Append(acc.submitted, lo)]
    ELSE LET mid == (lo + hi) \div 2
             first == execute_statements(acc, lo, mid)
         IN  \* the first half is evaluated before the second is entered
             IF first.success_count < 0 THEN first
             ELSE execute_statements(first, mid + 1, hi)

execute_setup(catalog) ==
    LET done == execute_statements(
                    [catalog |-> catalog, success_count |-> 0,
                     submitted |-> <<>>],
                    1, Len(SetupStatements))
    IN  [ret |-> done.success_count > 0, catalog |-> done.catalog,
         submitted |-> done.submitted]

\* A backend whose catalog holds exactly the objects of `objects`.
SetupBackend(objects) ==
    [schema |-> [o \in ObjectNames |-> IF o \in objects THEN 1 ELSE 0]]
    @@ InitBackend("trigger on_auth_user_created" \in objects)

\* Backends the setup can meet: with or without the exec_sql procedure,
\* any of the five tables, the two trigger functions and the extension
\* installed by hand or not.
InitialObjects ==
    {rpc \cup tables \cup functions :
        rpc \in {{}, {"function exec_sql"}},
        tables \in SUBSET {"table " \o t : t \in TableNames},
        functions \in {{}, {"function handle_updated_at",
                            "function handle_new_user",
                            "extension uuid-ossp"}}}

CanRun == opCount < MaxRuns

\* show_app_selector: "Run Database Setup" is clicked.  The button exists
\* only when DatabaseSetup() was constructed.
RunDatabaseSetup ==
    LET r == execute_setup(backend.schema)
    IN  /\ entry = "userflow_pro"
        /\ Mode(entry, session_state) = "none"
        /\ view = "selector"
        /\ DatabaseSetupConstructs(config)
        /\ CanRun
        /\ backend' = [backend EXCEPT
                 !.schema = r.catalog,
                 !.trigger = Exists(r.catalog, "trigger on_auth_user_created")]
        /\ lastOp' = [NoOp EXCEPT
                 !.op = "execute_setup", !.ret = r.ret,
                 !.calls = [k \in 1..Len(r.submitted) |->
                              Call("rpc.exec_sql", r.submitted[k])]]
        /\ opCount' = opCount + 1
        /\ ApplyRun(SelectorPage(session_state, config))
        /\ UNCHANGED <<entry, config, now, lastAuth, shown, bulk>>

NextSetup ==
    \/ Render
    \/ ChangeConfig
    \/ RunDatabaseSetup

InitSetup ==
    /\ entry = "userflow_pro"
    /\ config \in {"anon", "full"}
    /\ now = 0
    /\ session_state = InitSession
    /\ backend \in {SetupBackend(objects) : objects \in InitialObjects}
    /\ lastAuth = [admin |-> Absent, user |-> Absent]
    /\ view = "none"
    /\ renderedAt = 0
    /\ lastOp = NoOp
    /\ shown = NoShown
    /\ bulk = NoBulk
    /\ opCount = 0
    /\ ended = {}

SpecSetup == InitSetup /\ [][NextSetup]_vars

NoDuplicates(catalog) == \A o \in ObjectNames : catalog[o] <= 1

----------------------------------------------------------------------------
(* Scenario: the demo records filtered by status (checked under SpecFilter) *)

\* The user-management view rendered the demo records with an empty
\* query, role "All" and status "Active".
DemoActiveScenario ==
    /\ shown.source = "demo"
    /\ shown.search_query = <<>>
    /\ shown.role_filter = "All"
    /\ shown.status_filter = "Active"

ActiveDemoIds == {r.ID : r \in {x \in SeqRange(demo_users) : x.Status = "Active"}}

\* C17 (as stated): in demo mode, status "Active" with an empty query and
\* role "All" shows exactly 2 records, the active ones, whatever their role.
C17_DemoActiveFilterShowsTwoRecords ==
    DemoActiveScenario =>
        /\ Len(shown.ids) = 2
        /\ SeqRange(shown.ids) = ActiveDemoIds

\* C17 (amended): in demo mode, status "Active" with an empty query and
\* role "All" shows exactly 3 records, the active ones of the 4 demo
\* accounts (user-1 Admin, user-2 User, user-4 Moderator), whatever their
\* role.
C17_DemoActiveFilterShowsThreeRecords ==
    DemoActiveScenario =>
        /\ Len(demo_users) = 4
        /\ shown.ids = <<101, 102, 104>>
        /\ SeqRange(shown.ids) = ActiveDemoIds

\* The scenario was rendered and rows of three different roles are shown.
C17_Witness ==
    /\ DemoActiveScenario
    /\ view = "protected"
    /\ {demo_users[i].Role : i \in {j \in 1..Len(demo_users) :
                                      demo_users[j].ID \in SeqRange(shown.ids)}}
         = {"Admin", "User", "Moderator"}

----------------------------------------------------------------------------
(* Scenario: bulk deactivation in demo mode (checked under SpecBulk)        *)

\* The audit entries a step appended.
NewAuditEntries ==
    SubSeq(session_state'.audit_logs, Len(session_state.audit_logs) + 1,
           Len(session_state'.audit_logs))

\* C18: bulk-deactivating 3 selected identifiers in demo mode, where every
\* per-identifier step succeeds, yields success count 3 and appends 3 new
\* audit entries of action "bulk_operation" / "bulk_deactivate".
C18_BulkDeactivateThreeLogsThreeEntries ==
    [][(/\ opCount' = opCount + 1
        /\ bulk'.operation = "Deactivate Users"
        /\ ~SupabaseAdminConstructs(config)
        /\ Len(bulk'.selected) = 3)
         => /\ bulk'.success_count = 3
            /\ Len(NewAuditEntries) = 3
            /\ \A k \in 1..Len(NewAuditEntries) :
                  NewAuditEntries[k].action \in {"bulk_operation",
                                                 "bulk_deactivate"}]_vars

----------------------------------------------------------------------------
(* Refusal and live login at the admin gate (checked under SpecAuth)        *)

\* C19: whenever require_auth refuses access (the admin is not
\* authenticated, validate_session returns false, or an expiry was detected
\* and the script ran again), the run halts on the login form, so a refused
\* visitor can always authenticate again.
C19_RefusalShowsLoginForm ==
    Mode(entry, session_state) = "admin" =>
        LET r == AdminRun(session_state, now)
        IN  r.outcome # "admit" => AdminView(r.outcome) = "login"

\* C20: after a successful admin login against the live backend, the next
\* require_auth admits the admin to the protected view: the login leaves a
\* session with a token and a creation time, which validate_session accepts
\* until 24 hours have passed.
C20_LiveLoginIsAdmitted ==
    [][(/\ Mode(entry, session_state) = "admin"
        /\ SupabaseAdminConstructs(config)
        /\ ~is_admin_authenticated(session_state)
        /\ is_admin_authenticated(session_state'))
         => /\ session_state'.session_token
            /\ Present(session_state'.session_created)
            /\ view' = "protected"
            /\ \A t \in now..(now + SessionHours) :
                  validate_session(session_state', t).result = "True"]_vars

----------------------------------------------------------------------------
(* Call order of the Remote Account Client (checked under SpecClient)      *)

\* The backend endpoints a result's calls name, in order.
Apis(calls) == [k \in 1..Len(calls) |-> calls[k].api]

\* C21: delete_user issues the profile-row deletion before the credential
\* deletion, never the other order; when the profile deletion fails the
\* credential deletion is not attempted; and it returns True only when
\* both deletions succeeded (the account has neither record afterwards).
C21_DeleteProfileBeforeCredential ==
    /\ \A id \in Ids, fail \in FailAt :
          LET r == delete_user(backend, id, fail)
          IN  /\ Apis(r.calls) \in {<<"profiles.delete">>,
                                    <<"profiles.delete", "auth.admin.delete_user">>}
              /\ fail = 1 => Apis(r.calls) = <<"profiles.delete">>
              /\ r.ret = TRUE =>
                    /\ fail = 0
                    /\ Len(r.calls) = 2
                    /\ id \in DOMAIN backend.auth_users
                    /\ id \notin DOMAIN r.b.auth_users
                    /\ id \notin DOMAIN r.b.profiles
    /\ lastOp.op = "delete_user" =>
          /\ Apis(lastOp.calls)[1] = "profiles.delete"
          /\ lastOp.ret = TRUE =>
                /\ Apis(lastOp.calls) = <<"profiles.delete", "auth.admin.delete_user">>
                /\ lastOp.arg.id \notin DOMAIN backend.auth_users
                /\ lastOp.arg.id \notin DOMAIN backend.profiles

\* delete_user returned True for an account that had both records.
C21_Witness ==
    /\ lastOp.op = "delete_user"
    /\ lastOp.ret = TRUE
    /\ Len(lastOp.calls) = 2
    /\ lastOp.arg.id \in {1, 2}

\* delete_user returned False after the profile deletion alone was issued.
C21_WitnessProfileFailed ==
    /\ lastOp.op = "delete_user"
    /\ lastOp.ret = FALSE
    /\ Apis(lastOp.calls) = <<"profiles.delete">>

\* The field sets of the calls to one endpoint.
FieldsSentTo(calls, api) ==
    {calls[k].fields : k \in {j \in 1..Len(calls) : calls[j].api = api}}

\* What every update_user call does, whichever reading of the split: at
\* most two calls, the credential call first, the credential call carrying
\* only the email and a non-empty password, the password never sent to the
\* profile table, and a call skipped when its field set is empty.
UpdateSplitShape(user_data, calls) ==
    LET cred == FieldsSentTo(calls, "auth.admin.update_user_by_id")
        prof == FieldsSentTo(calls, "profiles.update")
        nonEmptyPw == "password" \in DOMAIN user_data /\ user_data["password"] # <<>>
    IN  /\ Apis(calls) \in {<<>>, <<"auth.admin.update_user_by_id">>,
                            <<"profiles.update">>,
                            <<"auth.admin.update_user_by_id", "profiles.update">>}
        /\ \A f \in cred :
              /\ f # {}
              /\ f = (DOMAIN user_data \cap {"email"})
                     \cup (IF nonEmptyPw THEN {"password"} ELSE {})
        /\ \A f \in prof : f # {} /\ "password" \notin f

\* C22 (as stated): update_user splits its input into at most two backend
\* calls, the credential call first; the credential fields (email, non-empty
\* password) go only to the credential call and the remaining fields only
\* to the profile call; the password is never written to the profile table
\* and a call is skipped when its field set is empty.
C22_CredentialFieldsOnlyInCredentialCall ==
    lastOp.op = "update_user" =>
        /\ UpdateSplitShape(lastOp.arg.user_data, lastOp.calls)
        /\ \A f \in FieldsSentTo(lastOp.calls, "profiles.update") :
              f = DOMAIN lastOp.arg.user_data \ {"email", "password"}

\* C22 (amended): update_user splits its input into at most two backend
\* calls, the credential call first; the email and a non-empty password go
\* to the credential call, every field except the password (the email
\* included) goes to the profile call; the password is never written to the
\* profile table and a call is skipped when its field set is empty.
C22_PasswordOnlyInCredentialCall ==
    lastOp.op = "update_user" =>
        /\ UpdateSplitShape(lastOp.arg.user_data, lastOp.calls)
        /\ \A f \in FieldsSentTo(lastOp.calls, "profiles.update") :
              f = DOMAIN lastOp.arg.user_data \ {"password"}
        /\ lastOp.ret = TRUE =>
              /\ (DOMAIN auth_updates(lastOp.arg.user_data) # {})
                    <=> FieldsSentTo(lastOp.calls, "auth.admin.update_user_by_id") # {}
              /\ (DOMAIN lastOp.arg.user_data \ {"password"} # {})
                    <=> FieldsSentTo(lastOp.calls, "profiles.update") # {}

\* update_user returned True for an input with an email, a password and
\* profile fields: both calls were issued.
C22_Witness ==
    /\ lastOp.op = "update_user"
    /\ lastOp.ret = TRUE
    /\ {"email", "password", "role"} \subseteq DOMAIN lastOp.arg.user_data
    /\ lastOp.arg.user_data["password"] # <<>>
    /\ Len(lastOp.calls) = 2
    /\ "email" \in lastOp.calls[2].fields

----------------------------------------------------------------------------
(* The calls of a bulk execution (checked under SpecBulk)                   *)

\* The Remote Account Client operation each bulk operation stands for.
CorrespondingClientOp(operation) ==
    CASE operation \in {"Activate Users", "Deactivate Users", "Change Role"} ->
            "update_user"
      [] operation = "Delete Users" -> "delete_user"
      [] OTHER -> "reset_user_password"

\* C23: for each of the five bulk operations, with a live backend,
\* bulk_operations_form issues the corresponding Remote Account Client call
\* exactly once per selected identifier, in selection order, and stops
\* after the last identifier.
C23_BulkIssuesOneCallPerIdentifier ==
    [][(/\ opCount' = opCount + 1
        /\ bulk'.operation # "none"
        /\ SupabaseAdminConstructs(config))
         => /\ Len(bulk'.calls) = Len(bulk'.selected)
            /\ \A k \in 1..Len(bulk'.calls) :
                  /\ bulk'.calls[k].id = bulk'.selected[k]
                  /\ bulk'.calls[k].op = CorrespondingClientOp(bulk'.operation)]_vars

----------------------------------------------------------------------------
(* What execute_setup submits (checked under SpecSetup)                     *)

\* The positions of the chunks that are whole statements of the script.
CompleteStatements ==
    {i \in 1..Len(SetupStatements) : SetupStatements[i].kind # "fragment"}

\* The positions of the CREATE TABLE statements.
CreateTableStatements ==
    {i \in 1..Len(SetupStatements) :
        SetupStatements[i].obj \in {"table " \o n : n \in TableNames}}

\* C24: execute_setup submits every SQL statement of the setup script, the
\* five CREATE TABLE statements in particular, to the backend exactly once,
\* in script order, each as one complete statement; a failing statement
\* never prevents the later ones from being submitted.
C24_EveryStatementIsSubmittedOnce ==
    lastOp.op = "execute_setup" =>
        LET submitted == [k \in 1..Len(lastOp.calls) |-> lastOp.calls[k].id]
        IN  /\ \A k \in 1..Len(submitted) - 1 : submitted[k] < submitted[k + 1]
            /\ \A k \in 1..Len(submitted) : submitted[k] \in CompleteStatements
            /\ \A i \in CompleteStatements :
                  Cardinality({k \in 1..Len(submitted) : submitted[k] = i}) = 1
            /\ Cardinality(CreateTableStatements) = 5
            /\ \A i \in CreateTableStatements :
                  \E k \in 1..Len(submitted) : submitted[k] = i

----------------------------------------------------------------------------
(* Staged row actions (checked under SpecForms)                             *)

RowActions == {"edit", "reset", "delete"}

\* The identifier staged for a row action, and whether its modal is up.
StagedId(s, m) ==
    CASE m = "edit" -> s.edit_user_id
      [] m = "reset" -> s.reset_user_id
      [] OTHER -> s.delete_user_id

ShowFlag(s, m) ==
    CASE m = "edit" -> s.show_edit_user
      [] m = "reset" -> s.show_reset_password
      [] OTHER -> s.show_delete_user

NoMutation ==
    /\ AccountState(backend') = AccountState(backend)
    /\ session_state'.audit_logs = session_state.audit_logs

\* C25: clicking a row's edit, reset-password or delete button only stages
\* that record's identifier: no backend mutation and no audit entry occurs
\* until the staged action's form is confirmed; a delete is executed only
\* for the identifier that was staged; cancelling clears the staged
\* identifier without any mutation.
C25_RowActionsAreStagedThenConfirmed ==
    [][/\ \A m \in RowActions :
            \* staging: the click that puts an identifier in place
            /\ (/\ StagedId(session_state', m) # StagedId(session_state, m)
                /\ Present(StagedId(session_state', m)))
                 => /\ NoMutation
                    /\ ShowFlag(session_state', m)
                    /\ opCount' = opCount
            \* no form submitted in this step: nothing is mutated or logged
            /\ opCount' = opCount => NoMutation
            \* a modal closed without a submission: the identifier is cleared
            /\ (/\ ShowFlag(session_state, m) /\ ~ShowFlag(session_state', m)
                /\ opCount' = opCount)
                 => ~Present(StagedId(session_state', m)) /\ NoMutation
       \* a delete is executed, and logged, for the staged identifier only
       /\ (DOMAIN backend.auth_users \ DOMAIN backend'.auth_users # {}
           \/ DOMAIN backend.profiles \ DOMAIN backend'.profiles # {}
           \/ (lastOp'.op = "delete_user" /\ opCount' = opCount + 1))
            => /\ "delete" \in OpenModals(session_state)
               /\ (DOMAIN backend.auth_users \ DOMAIN backend'.auth_users)
                    \cup (DOMAIN backend.profiles \ DOMAIN backend'.profiles)
                    \subseteq {Val(session_state.delete_user_id)}
               /\ lastOp'.arg.id = Val(session_state.delete_user_id)
       /\ \A k \in 1..Len(NewAuditEntries) :
             NewAuditEntries[k].action = "delete_user" =>
                /\ "delete" \in OpenModals(session_state)
                /\ NewAuditEntries[k].details.user_id
                      = Val(session_state.delete_user_id)
      ]_vars

\* A staged delete was confirmed against the live backend: the staged
\* account is gone and the deletion is logged.
C25_Witness ==
    /\ lastOp.op = "delete_user"
    /\ lastOp.ret = TRUE
    /\ lastOp.arg.id \notin DOMAIN backend.auth_users
    /\ Len(session_state.audit_logs) = 1
    /\ session_state.audit_logs[1].action = "delete_user"
    /\ ~Present(session_state.delete_user_id)

\* A staged action was cancelled: the modal is closed, the identifier is
\* gone (the email staged with it stays) and nothing was submitted.
C25_WitnessCancelled ==
    /\ Present(session_state.delete_user_email)
    /\ ~Present(session_state.delete_user_id)
    /\ ~session_state.show_delete_user
    /\ opCount = 0
    /\ view = "protected"

----------------------------------------------------------------------------
(* The default credentials (checked under SpecAuth)                         *)

\* The session of the built-in demo administrator.
IsDemoAdmin(s) ==
    /\ is_admin_authenticated(s)
    /\ Present(s.admin_user)
    /\ Val(s.admin_user).id = demo_admin_id

\* C26: the built-in default credentials create an admin session only when
\* the backend client cannot be constructed; when it is constructed, the
\* login form grants an admin session only if authenticate_admin returned
\* True for the submitted email and password.
C26_DefaultCredentialsOnlyWithoutClient ==
    [][(/\ Mode(entry, session_state) = "admin"
        /\ ~is_admin_authenticated(session_state)
        /\ is_admin_authenticated(session_state'))
         => IF SupabaseAdminConstructs(config)
            THEN /\ ~IsDemoAdmin(session_state')
                 /\ \E email \in Emails \cup {default_email},
                       password \in Passwords \cup {default_password},
                       fail \in FailAt :
                       LET r == authenticate_admin(backend, session_state,
                                                   email, password, fail)
                       IN  /\ r.ret = TRUE
                           /\ session_state'.admin_user = r.state.admin_user
            ELSE /\ IsDemoAdmin(session_state')
                 /\ Val(session_state'.admin_user).email = default_email]_vars

\* A session granted through the constructed client, and, in another
\* deployment state, the default credentials refused by it.
C26_Witness ==
    /\ SupabaseAdminConstructs(config)
    /\ is_admin_authenticated(session_state)
    /\ ~IsDemoAdmin(session_state)
    /\ lastAuth.admin # Absent
    /\ ~login_form(backend, InitSession, now, config, default_email,
                   default_password, 0).authed

\* The default credentials granted a session where no client is built.
C26_WitnessDemo ==
    /\ ~SupabaseAdminConstructs(config)
    /\ IsDemoAdmin(session_state)
    /\ view = "protected"

----------------------------------------------------------------------------
(* app.py : the add-user modal of handle_modals and the bulk buttons of     *)
(* render_user_management                                                   *)

\* handle_modals, "Create User" submitted: no client call is made.
app_add_user_form(s, new_email, new_password, new_role, t) ==
    IF new_email # <<>> /\ new_password # <<>>
    THEN [log_admin_action(s, "create_user",
                           [email |-> new_email, role |-> new_role], t)
            EXCEPT !.show_add_user = FALSE]
    ELSE s

AppBulkActions == {"bulk_activate", "bulk_deactivate", "bulk_delete"}

\* render_user_management, "Activate / Deactivate / Delete Selected (n)":
\* a message and an audit entry, no client call.
app_bulk_action(s, action, selected_users, t) ==
    log_admin_action(s, action, [user_count |-> Len(selected_users)], t)

\* The run of app.py with a widget of the user-management page clicked.
ApplyAppClick(base, s2, submitted) ==
    /\ entry = "app"
    /\ view = "protected"
    /\ IF base.view = "protected" THEN ApplyRun(Admitted(s2))
                                  ELSE ApplyRun(base)
    /\ opCount' = opCount + (IF submitted /\ base.view = "protected"
                             THEN 1 ELSE 0)
    /\ lastOp' = NoOp
    /\ UNCHANGED <<backend, bulk>>
    /\ FormFrame

AppAddUserClick ==
    LET base == AdminPage(session_state, now)
    IN  /\ ~session_state.show_add_user
        /\ ApplyAppClick(base, [base.state EXCEPT !.show_add_user = TRUE], FALSE)

AppAddUserSubmit ==
    \E new_email \in {<<>>, EmailC}, new_password \in {<<>>, PwA},
       new_role \in {"User", "Admin"} :
        LET base == AdminPage(session_state, now)
        IN  /\ session_state.show_add_user
            /\ CanSubmit
            /\ ApplyAppClick(base,
                  app_add_user_form(base.state, new_email, new_password,
                                    new_role, now), TRUE)

AppAddUserCancel ==
    LET base == AdminPage(session_state, now)
    IN  /\ session_state.show_add_user
        /\ ApplyAppClick(base, [base.state EXCEPT !.show_add_user = FALSE], FALSE)

AppBulkClick ==
    \E action \in AppBulkActions :
        LET base == AdminPage(session_state, now)
            live == SupabaseAdminConstructs(config)
            ids == RowIds(users_df(live, backend, 0).rows)
        IN  \E selected_users \in Selections(ids) :
                /\ CanSubmit
                /\ ApplyAppClick(base,
                      app_bulk_action(base.state, action, selected_users, now),
                      TRUE)

NextApp ==
    \/ Render
    \/ AdminLoginSubmit
    \/ ChangeConfig
    \/ AppAddUserClick
    \/ AppAddUserSubmit
    \/ AppAddUserCancel
    \/ AppBulkClick

InitApp ==
    /\ Init
    /\ entry = "app"

SpecApp == InitApp /\ [][NextApp]_vars

\* The audit actions that stand for a mutation, and the Remote Account
\* Client operation each single-account action reports.
BulkAuditActions == AppBulkActions \cup {"bulk_operation"}

ClientOpFor(action) ==
    CASE action = "create_user" -> "create_user"
      [] action = "delete_user" -> "delete_user"
      [] action = "password_reset_email" -> "reset_user_password"
      [] OTHER -> "update_user"

MutatingAuditActions ==
    {"create_user", "update_user", "delete_user", "password_reset_email",
     "password_reset_manual"} \cup BulkAuditActions

\* C27: an audit entry for a mutating action is appended only after the
\* corresponding backend call (or, without a backend client, its demo
\* simulation) was attempted and reported success: no view logs an action
\* it did not perform.
C27_AuditEntryOnlyAfterPerformedAction ==
    [][\A k \in 1..Len(NewAuditEntries) :
          LET e == NewAuditEntries[k]
          IN  (e.action \in MutatingAuditActions
               /\ SupabaseAdminConstructs(config))
                => IF e.action \in BulkAuditActions
                   THEN \E j \in 1..Len(bulk'.calls) :
                            /\ bulk'.calls[j].op \in MutatingOps
                            /\ bulk'.calls[j].ret
                   ELSE /\ lastOp'.op = ClientOpFor(e.action)
                        /\ lastOp'.ret = TRUE]_vars
----------------------------------------------------------------------------
(* create_user on a database with the on_auth_user_created trigger        *)

\* The profile rows of an email address.
RowsOf(b, email) == {id \in DOMAIN b.profiles : b.profiles[id].email = email}

\* C28: with the on_auth_user_created trigger installed, create_user for an
\* email address that no account uses, every call reaching the server,
\* returns True and leaves exactly one profile row for the new account,
\* carrying the requested full_name, role and status.
C28_CreateUserUnderTriggerLeavesRequestedProfile ==
    [][\A email \in {EmailA, EmailC}, user_data \in UserDatas :
        (/\ backend.trigger
         /\ ~EmailTaken(backend.auth_users, email, 0)
         /\ ~EmailTaken(backend.profiles, email, 0)
         /\ opCount' = opCount + 1
         /\ lastOp' = Record("create_user",
                             create_user(backend, email, PwA, user_data, 0),
                             [email |-> email, user_data |-> user_data]))
         => /\ lastOp'.ret = TRUE
            /\ Cardinality(RowsOf(backend', email)) = 1
            /\ \A id \in RowsOf(backend', email) :
                 /\ backend'.profiles[id].full_name
                      = GivenOrDefault(user_data, "full_name", <<>>)
                 /\ backend'.profiles[id].role
                      = GivenOrDefault(user_data, "role", "user")
                 /\ backend'.profiles[id].status
                      = GivenOrDefault(user_data, "status", "active")
      ]_vars
----------------------------------------------------------------------------
(* enhanced_app.py / userflow_pro.py : render_dashboard                    *)

\* The statistics shown when no client was constructed.
demo_stats ==
    [total_users |-> 150, active_users |-> 142, inactive_users |-> 8,
     admin_users |-> 3, regular_users |-> 147]

\* n / d rounded to the nearest integer, halves to the even one.
RoundHalfEven(n, d) ==
    LET q == n \div d
        r == n % d
    IN  IF 2 * r < d THEN q
        ELSE IF 2 * r > d THEN q + 1
        ELSE IF q % 2 = 0 THEN q ELSE q + 1

\* f"{active_users/total_users*100:.1f}% active": the tenths of a percent
\* that are shown; the division raises ZeroDivisionError for total_users = 0.
active_delta(stats) ==
    IF stats.total_users = 0
    THEN [raised |-> TRUE, tenths |-> 0]
    ELSE [raised |-> FALSE,
          tenths |-> RoundHalfEven(1000 * stats.active_users, stats.total_users)]

\* render_dashboard(supabase_admin): the statistics, then the four metrics.
\* No exception is caught here.
render_dashboard(live, b, fail) ==
    LET got == IF live THEN get_user_stats(b, fail)
                       ELSE Returned(demo_stats, b, <<>>)
        delta == active_delta(got.ret)
    IN  IF delta.raised THEN Raised(b, got.calls)
        ELSE Returned([stats |-> got.ret, active_tenths |-> delta.tenths],
                      b, got.calls)

\* A run of enhanced_app.py on its "Dashboard" page.
DashboardRender ==
    \E fail \in FailAt :
        LET base == AdminPage(session_state, now)
            live == SupabaseAdminConstructs(config)
            r == render_dashboard(live, backend, fail)
        IN  /\ entry = "enhanced_app"
            /\ view = "protected"
            /\ IF base.view = "protected"
               THEN /\ ApplyRun(Admitted(base.state))
                    /\ lastOp' = Record("render_dashboard", r, [live |-> live])
               ELSE /\ ApplyRun(base)
                    /\ lastOp' = NoOp
            /\ UNCHANGED <<backend, bulk, opCount>>
            /\ FormFrame

NextDashboard ==
    \/ Render
    \/ AdminLoginSubmit
    \/ Tick
    \/ ChangeConfig
    \/ DashboardRender

InitDashboard ==
    /\ Init
    /\ entry = "enhanced_app"

SpecDashboard == InitDashboard /\ [][NextDashboard]_vars

\* C29: render_dashboard completes without raising for every statistics
\* value it is given, those with total_users = 0 included: the percentage of
\* active accounts is never computed by a division by zero.
C29_DashboardNeverDividesByZero ==
    lastOp.op = "render_dashboard" => ~lastOp.raised
----------------------------------------------------------------------------
(* components/user_forms.py : edit_user_form over the accounts the schema  *)
(* of utils/database_setup.py allows                                       *)

\* profiles.role / profiles.status: the CHECK constraints.
SchemaRoles == {"user", "admin", "moderator"}
SchemaStatuses == {"active", "inactive", "suspended"}

\* The first listed account with each role and status of the schema.
EditBackends ==
    {[InitBackend(FALSE) EXCEPT !.profiles[1].role = r,
                                !.profiles[1].status = st] :
       r \in SchemaRoles, st \in SchemaStatuses}

NextEdit ==
    \/ Render
    \/ AdminLoginSubmit
    \/ ChangeConfig
    \/ RowClick
    \/ FormCancel
    \/ EditUserSubmit

InitEdit ==
    /\ entry = "enhanced_app"
    /\ config \in {"none", "anon", "full"}
    /\ now = 0
    /\ session_state = InitSession
    /\ backend \in EditBackends
    /\ lastAuth = [admin |-> Absent, user |-> Absent]
    /\ view = "none"
    /\ renderedAt = 0
    /\ lastOp = NoOp
    /\ shown = NoShown
    /\ bulk = NoBulk
    /\ opCount = 0
    /\ ended = {}

SpecEdit == InitEdit /\ [][NextEdit]_vars

\* C30: whenever the edit form is open for an existing account whose role
\* and status are values the schema allows, edit_user_form renders its form
\* without raising.
C30_EditFormRendersForEverySchemaAccount ==
    (/\ view = "protected"
     /\ "edit" \in OpenModals(session_state))
      => LET live == SupabaseAdminConstructs(config)
             found == edit_user_profile(backend, live,
                                        Val(session_state.edit_user_id), FALSE)
         IN  (/\ Present(found)
              /\ Val(found).role \in SchemaRoles
              /\ Val(found).status \in SchemaStatuses)
               => EditFormRenders(Val(found))

====
